---- MODULE Spec2Model ----
(***************************************************************************)
(* A model of mesmer's power transformer                                   *)
(* (src/mesmer/stats/_power_transformer.py): the logistic lambda function, *)
(* the forward and inverse Yeo-Johnson kernels, the maximum-likelihood     *)
(* fitter and the monthly fit / transform / inverse orchestration.         *)
(*                                                                         *)
(* The code computes in IEEE float64.  The model keeps the shape of that   *)
(* arithmetic at a reduced width: a binary floating-point format with     *)
(* MantBits significant bits, gradual underflow down to 2^-FracBits,      *)
(* overflow to infinity at 2^TopExp, round-to-nearest-even after every    *)
(* operation, and NaN.  A finite value is held as its integer count of    *)
(* units of 2^-FracBits.                                                   *)
(***************************************************************************)
EXTENDS Integers, Sequences, FiniteSets, TLC

(***************************************************************************)
(* The floating-point format.                                              *)
(***************************************************************************)
MantBits == 8
FracBits == 16
TopExp == 6

\* 2^k (1 for k <= 0), from a table of the powers that fit a machine integer
RECURSIVE Pow2Rec(_)
Pow2Rec(k) == IF k <= 0 THEN 1 ELSE 2 * Pow2Rec(k - 1)
Pow2Table == [k \in 0..30 |-> Pow2Rec(k)]
Pow2(k) == IF k <= 0 THEN 1 ELSE Pow2Table[k]

\* the number of bits of n (0 for n <= 0), a byte at a time
RECURSIVE BitLenRec(_)
BitLenRec(n) == IF n <= 0 THEN 0 ELSE 1 + BitLenRec(n \div 2)
BitLenTable == [n \in 0..255 |-> BitLenRec(n)]
BitLen(n) ==
  IF n <= 0 THEN 0
  ELSE IF n < 65536
       THEN (IF n < 256 THEN BitLenTable[n] ELSE 8 + BitLenTable[n \div 256])
       ELSE (IF n < 16777216 THEN 16 + BitLenTable[n \div 65536]
             ELSE 24 + BitLenTable[n \div 16777216])

One == Pow2(FracBits)
MaxFinite == (Pow2(MantBits) - 1) * Pow2(FracBits + TopExp - MantBits)
MinNormal == Pow2(MantBits - 1)
PInf == 2 * MaxFinite
NInf == 0 - PInf
NaN == PInf + 1

IsNaN(x) == x = NaN
IsInf(x) == x = PInf \/ x = NInf
IsFinite(x) == ~IsNaN(x) /\ ~IsInf(x)
AbsInt(n) == IF n < 0 THEN 0 - n ELSE n
SgnInt(n) == IF n < 0 THEN 0 - 1 ELSE IF n > 0 THEN 1 ELSE 0
MaxInt(a, b) == IF a >= b THEN a ELSE b
MinInt(a, b) == IF a <= b THEN a ELSE b

\* floor division and shifts on (possibly negative) integers
ShiftR(n, d) == IF d >= 31 THEN 0 ELSE n \div Pow2(d)
Scale(n, d) == IF d >= 0 THEN n * Pow2(d) ELSE ShiftR(n, 0 - d)

(***************************************************************************)
(* RoundME(num, sh): the value num * 2^sh units (num >= 0) rounded to the  *)
(* nearest value of the format, ties to even; PInf on overflow.            *)
(***************************************************************************)
RoundME(num, sh) ==
  IF num = 0 THEN 0
  ELSE LET b == BitLen(num)
           e == b + sh
       IN  IF e > FracBits + TopExp THEN PInf
           ELSE LET q == MaxInt(e - MantBits, 0)
                    d == q - sh
                IN  IF d <= 0 THEN num * Pow2(sh)
                    ELSE IF d > b THEN 0
                    ELSE LET p == Pow2(d)
                             m == num \div p
                             rem == num % p
                             half == p \div 2
                             up == IF rem > half \/ (rem = half /\ m % 2 = 1)
                                   THEN 1 ELSE 0
                             n == (m + up) * Pow2(q)
                         IN  IF n > MaxFinite THEN PInf ELSE n

\* the same for a signed count
RoundS(num, sh) == SgnInt(num) * RoundME(AbsInt(num), sh)

\* a finite nonzero |x| as mant * 2^ex units, mant normalised to MantBits bits
MantOf(a) == Scale(a, MantBits - BitLen(a))
ExOf(a) == BitLen(a) - MantBits

(***************************************************************************)
(* The four operations, comparisons and sign functions of float64.         *)
(***************************************************************************)
fneg(a) == IF IsNaN(a) THEN NaN ELSE 0 - a

fadd(a, b) ==
  IF IsNaN(a) \/ IsNaN(b) THEN NaN
  ELSE IF IsInf(a) THEN (IF IsInf(b) /\ a # b THEN NaN ELSE a)
  ELSE IF IsInf(b) THEN b
  ELSE RoundS(a + b, 0)

fsub(a, b) == fadd(a, fneg(b))

fmul(a, b) ==
  IF IsNaN(a) \/ IsNaN(b) THEN NaN
  ELSE IF IsInf(a) \/ IsInf(b)
       THEN (IF a = 0 \/ b = 0 THEN NaN ELSE SgnInt(a) * SgnInt(b) * PInf)
  ELSE IF a = 0 \/ b = 0 THEN 0
  ELSE SgnInt(a) * SgnInt(b)
       * RoundME(MantOf(AbsInt(a)) * MantOf(AbsInt(b)),
                 ExOf(AbsInt(a)) + ExOf(AbsInt(b)) - FracBits)

fdiv(a, b) ==
  IF IsNaN(a) \/ IsNaN(b) THEN NaN
  ELSE IF IsInf(a) THEN (IF IsInf(b) THEN NaN
                         ELSE IF b < 0 THEN 0 - a ELSE a)
  ELSE IF IsInf(b) THEN 0
  ELSE IF b = 0 THEN (IF a = 0 THEN NaN ELSE SgnInt(a) * PInf)
  ELSE IF a = 0 THEN 0
  ELSE LET ma == MantOf(AbsInt(a)) * Pow2(MantBits + 2)
           mb == MantOf(AbsInt(b))
           qt == ma \div mb
           sticky == IF ma % mb = 0 THEN 0 ELSE 1
       IN  SgnInt(a) * SgnInt(b)
           * RoundME(2 * qt + sticky,
                     ExOf(AbsInt(a)) - ExOf(AbsInt(b)) - MantBits - 3 + FracBits)

\* comparisons: every comparison with NaN is false
fge(a, b) == ~IsNaN(a) /\ ~IsNaN(b) /\ a >= b
fgt(a, b) == ~IsNaN(a) /\ ~IsNaN(b) /\ a > b
fle(a, b) == ~IsNaN(a) /\ ~IsNaN(b) /\ a <= b
flt(a, b) == ~IsNaN(a) /\ ~IsNaN(b) /\ a < b

np_abs(a) == IF IsNaN(a) THEN NaN ELSE AbsInt(a)
np_isnan(a) == IsNaN(a)
\* np.sign: -1, 0, 1, and NaN for NaN
np_sign(a) == IF IsNaN(a) THEN NaN ELSE SgnInt(a) * One
\* np.copysign(x, s): the magnitude of x with the sign of s (s is never NaN here
\* unless x is NaN too)
np_copysign_dropped(x, s) == x
np_copysign(x, s) ==
  IF IsNaN(x) THEN NaN
  ELSE IF IsNaN(s) THEN x
  ELSE IF s < 0 THEN 0 - AbsInt(x) ELSE AbsInt(x)

\* an integer, and a ratio of two integers, as floats
FromInt(k) == RoundS(k, FracBits)
FromRatio(p, q) == fdiv(FromInt(p), FromInt(q))

(***************************************************************************)
(* exp, expm1, log1p and log.  Each is evaluated in fixed point at         *)
(* KBits fractional bits (more than the format holds) and the result is    *)
(* rounded to the format once, so that it is within an ulp of the true     *)
(* value at every magnitude, as numpy's are.                               *)
(***************************************************************************)
KBits == MantBits + 6
K == Pow2(KBits)

\* a / b rounded to the nearest integer (b > 0)
RDiv(a, b) == (2 * a + b) \div (2 * b)

\* k * ln 2 in fixed point (ln 2 = 1143/1649 to seven digits)
LnTwoK(k) == RDiv(k * K * 1143, 1649)

\* a finite float in fixed point
ToK(x) == SgnInt(x) * Scale(AbsInt(x), KBits - FracBits)

\* sum of term_j = term_(j-1) * r / j, from term: e^r in fixed point for term = K
RECURSIVE ExpSum(_, _, _)
ExpSum(r, term, j) ==
  IF term = 0 THEN 0 ELSE term + ExpSum(r, RDiv(term * r, K * j), j + 1)

\* e^x = ExpMant(xk) / K * 2^ExpTwo(xk), |x| below the overflow thresholds
ExpTwo(xk) == RDiv(xk * 1649, K * 1143)
ExpMant(xk) == ExpSum(xk - LnTwoK(ExpTwo(xk)), K, 1)

\* (e^x - 1) / x in fixed point, |x| < 1/2
RECURSIVE Expm1Sum(_, _, _)
Expm1Sum(r, term, j) ==
  IF term = 0 THEN 0 ELSE term + Expm1Sum(r, RDiv(term * r, K * (j + 1)), j + 1)

\* atanh(z) / z in fixed point, from the power pw = w^j with w = z^2
RECURSIVE AtanhSum(_, _, _)
AtanhSum(w, pw, j) ==
  IF pw = 0 THEN 0 ELSE RDiv(pw, 2 * j + 1) + AtanhSum(w, RDiv(pw * w, K), j + 1)

\* ln(num / One) in fixed point, num > 0 a count of units
LnK(num) ==
  LET b == BitLen(num)
      f0 == Scale(num, KBits + 1 - b)
      big == f0 * 1000 > K * 1414
      z == IF big THEN RDiv((f0 - 2 * K) * K, f0 + 2 * K)
           ELSE RDiv((f0 - K) * K, f0 + K)
      k == (b - 1 - FracBits) + (IF big THEN 1 ELSE 0)
      s == AtanhSum(RDiv(z * z, K), K, 0)
  IN  LnTwoK(k) + 2 * RDiv(z * s, K)

\* ln(1 + x) / x in fixed point, |x| < 1/2
Log1pRel(xk) ==
  LET z == RDiv(xk * K, 2 * K + xk)
      s == AtanhSum(RDiv(z * z, K), K, 0)
  IN  s - RDiv(s * z, K)

np_exp(x) ==
  IF IsNaN(x) THEN NaN
  ELSE IF x = PInf THEN PInf
  ELSE IF x = NInf THEN 0
  ELSE IF x >= (TopExp + 1) * One THEN PInf
  ELSE IF x <= (0 - (FracBits + 2)) * One THEN 0
  ELSE RoundME(ExpMant(ToK(x)), ExpTwo(ToK(x)) - KBits + FracBits)

np_expm1_one_not_subtracted(x) == np_exp(x)
np_expm1(x) ==
  IF IsNaN(x) THEN NaN
  ELSE IF x = PInf THEN PInf
  ELSE IF x = NInf THEN 0 - One
  ELSE IF x = 0 THEN 0
  ELSE IF 2 * AbsInt(x) < One
       THEN SgnInt(x) * RoundME(MantOf(AbsInt(x)) * Expm1Sum(ToK(x), K, 1),
                                ExOf(AbsInt(x)) - KBits)
  ELSE IF x >= (TopExp + 1) * One THEN PInf
  ELSE IF x <= (0 - (FracBits + 2)) * One THEN 0 - One
  ELSE IF x > 0
       THEN RoundME(ExpMant(ToK(x)) * Pow2(ExpTwo(ToK(x))) - K, FracBits - KBits)
  ELSE 0 - RoundME(K - Scale(ExpMant(ToK(x)), ExpTwo(ToK(x))), FracBits - KBits)

np_log1p(x) ==
  IF IsNaN(x) THEN NaN
  ELSE IF x = PInf THEN PInf
  ELSE IF x < 0 - One THEN NaN
  ELSE IF x = 0 - One THEN NInf
  ELSE IF x = 0 THEN 0
  ELSE IF 2 * AbsInt(x) < One
       THEN SgnInt(x) * RoundME(MantOf(AbsInt(x)) * Log1pRel(ToK(x)),
                                ExOf(AbsInt(x)) - KBits)
  ELSE RoundS(LnK(One + x), FracBits - KBits)

np_log(x) ==
  IF IsNaN(x) THEN NaN
  ELSE IF x = PInf THEN PInf
  ELSE IF x < 0 THEN NaN
  ELSE IF x = 0 THEN NInf
  ELSE IF 2 * AbsInt(x - One) < One THEN np_log1p(x - One)
  ELSE RoundS(LnK(x), FracBits - KBits)

(***************************************************************************)
(* Arrays are sequences; a reduction folds from the left as numpy's        *)
(* pairwise sum does for a handful of elements.                            *)
(***************************************************************************)
Two == 2 * One
\* np.finfo(np.float64).eps: the distance from 1.0 to the next float
eps == Pow2(FracBits - MantBits + 1)

\* an array given element by element, held as a sequence of its values
ndarray(f) == f \o <<>>

RECURSIVE np_sum(_)
np_sum(a) == IF Len(a) = 0 THEN 0
             ELSE fadd(np_sum(SubSeq(a, 1, Len(a) - 1)), a[Len(a)])

\* ndarray.var(): the mean of the squared deviations from the mean (0/0 = NaN
\* for an empty array)
np_var(a) ==
  LET n == FromInt(Len(a))
      mean == fdiv(np_sum(a), n)
      dev == ndarray([i \in 1..Len(a) |-> fsub(a[i], mean)])
  IN  fdiv(np_sum(ndarray([i \in 1..Len(a) |-> fmul(dev[i], dev[i])])), n)

\* a[mask]: the elements of a at the positions where mask holds, in order
RECURSIVE Compress(_, _)
Compress(a, mask) ==
  IF Len(a) = 0 THEN <<>>
  ELSE LET init == Compress(SubSeq(a, 1, Len(a) - 1), SubSeq(mask, 1, Len(a) - 1))
       IN  IF mask[Len(a)] THEN Append(init, a[Len(a)]) ELSE init

\* np.clip(x, lower, upper)
np_clip(x, lower, upper) ==
  IF IsNaN(x) THEN NaN ELSE IF x < lower THEN lower ELSE IF x > upper THEN upper ELSE x

(***************************************************************************)
(* lambda_function: 2 / (1 + xi_0 * exp(xi_1 * T)); coeffs = <<xi_0, xi_1>> *)
(***************************************************************************)
lambda_function_minus(coeffs, local_yearly_T) ==
  fdiv(Two, fsub(One, fmul(coeffs[1], np_exp(fmul(local_yearly_T, coeffs[2])))))
lambda_function(coeffs, local_yearly_T) ==
  fdiv(Two, fadd(One, fmul(coeffs[1], np_exp(fmul(local_yearly_T, coeffs[2])))))

\* the same over an array of yearly values
lambda_function_arr(coeffs, local_yearly_T) ==
  ndarray([i \in 1..Len(local_yearly_T) |-> lambda_function(coeffs, local_yearly_T[i])])

(***************************************************************************)
(* _yeo_johnson_transform_optimized(data): the arrays the closure          *)
(* pre-computes, and _inner(lambdas), which writes the closure's buffer    *)
(* transf and returns it.                                                  *)
(***************************************************************************)
\* np.empty_like where the content is never read: _inner writes every element of
\* its buffer (lmbds_eq_0_or_2 and its negation cover the array)
empty_like(data) == [i \in 1..Len(data) |-> NaN]

data_log1p_of(data) == ndarray([i \in 1..Len(data) |-> np_log1p(np_abs(data[i]))])
pos_of(data) == [i \in 1..Len(data) |-> fge(data[i], 0)]

lambdas_not_aligned(data, lambdas) == lambdas
\* np.where(pos, lambdas, 2.0 - lambdas)
aligned_lambdas(data, lambdas) ==
  ndarray([i \in 1..Len(data) |->
             IF pos_of(data)[i] THEN lambdas[i] ELSE fsub(Two, lambdas[i])])

lmbds_eq_0_or_2(data, lambdas) ==
  [i \in 1..Len(data) |-> fle(np_abs(aligned_lambdas(data, lambdas)[i]), eps)]

\* _inner without the assignment to transf[lmbds_ne_0_or_2]
_inner_general_branch_unwritten(data, data_log1p, transf, lambdas) ==
  LET lam == aligned_lambdas(data, lambdas)
      eq == ndarray([i \in 1..Len(data) |-> fle(np_abs(lam[i]), eps)])
      w1 == ndarray([i \in 1..Len(data) |-> IF eq[i] THEN data_log1p[i] ELSE transf[i]])
  IN  ndarray([i \in 1..Len(data) |-> np_copysign(w1[i], data[i])])
\* the buffer after _inner(lambdas): transf is its content before the call
_inner(data, data_log1p, transf, lambdas) ==
  LET lam == aligned_lambdas(data, lambdas)
      eq == ndarray([i \in 1..Len(data) |-> fle(np_abs(lam[i]), eps)])
      w1 == ndarray([i \in 1..Len(data) |-> IF eq[i] THEN data_log1p[i] ELSE transf[i]])
      w2 == [i \in 1..Len(data) |->
               IF ~eq[i] THEN fdiv(np_expm1(fmul(data_log1p[i], lam[i])), lam[i])
               ELSE w1[i]]
  IN  ndarray([i \in 1..Len(data) |-> np_copysign(w2[i], data[i])])

\* _yeo_johnson_transform_np(data, lambdas), empty the content of np.empty_like
_yeo_johnson_transform_np(data, lambdas, empty) ==
  _inner(data, data_log1p_of(data), empty, lambdas)

(***************************************************************************)
(* _yeo_johnson_inverse_transform_np: four masks, four assignments.        *)
(***************************************************************************)
sel_a(data, lambdas) ==
  [i \in 1..Len(data) |-> fge(data[i], 0) /\ flt(np_abs(lambdas[i]), eps)]
sel_b(data, lambdas) ==
  [i \in 1..Len(data) |-> fge(data[i], 0) /\ fge(np_abs(lambdas[i]), eps)]
sel_c(data, lambdas) ==
  [i \in 1..Len(data) |-> flt(data[i], 0) /\ fgt(np_abs(fsub(lambdas[i], Two)), eps)]
sel_d(data, lambdas) ==
  [i \in 1..Len(data) |-> flt(data[i], 0) /\ fle(np_abs(fsub(lambdas[i], Two)), eps)]

\* the four assignments, for one element
inverse_a(x) == np_expm1(x)
inverse_b(x, lmbds) == np_expm1(fdiv(np_log1p(fmul(x, lmbds)), lmbds))

inverse_c_same_lambda(x, lambda_) ==
  fneg(np_expm1(fdiv(np_log1p(fmul(fneg(lambda_), x)), lambda_)))
inverse_c(x, lambda_) ==
  LET lmbds == fsub(Two, lambda_)
  IN  fneg(np_expm1(fdiv(np_log1p(fmul(fneg(lmbds), x)), lmbds)))

inverse_d(x) == fneg(np_expm1(fneg(x)))

\* empty is the content of np.empty_like(data); an element no mask selects keeps it
_yeo_johnson_inverse_transform_np(data, lambdas, empty) ==
  LET wa == [i \in 1..Len(data) |->
               IF sel_a(data, lambdas)[i] THEN inverse_a(data[i]) ELSE empty[i]]
      wb == [i \in 1..Len(data) |->
               IF sel_b(data, lambdas)[i] THEN inverse_b(data[i], lambdas[i]) ELSE wa[i]]
      wc == [i \in 1..Len(data) |->
               IF sel_c(data, lambdas)[i] THEN inverse_c(data[i], lambdas[i]) ELSE wb[i]]
  IN  [i \in 1..Len(data) |->
         IF sel_d(data, lambdas)[i] THEN inverse_d(data[i]) ELSE wc[i]]

(***************************************************************************)
(* _yeo_johnson_optimize_lambda_np: paired NaN removal, the negative log   *)
(* likelihood, and scipy's bounded Nelder-Mead minimisation.               *)
(***************************************************************************)
isnan_residuals_only(monthly_residuals, yearly_pred) ==
  [i \in 1..Len(monthly_residuals) |-> np_isnan(monthly_residuals[i])]
isnan_either(monthly_residuals, yearly_pred) ==
  [i \in 1..Len(monthly_residuals) |->
     np_isnan(monthly_residuals[i]) \/ np_isnan(yearly_pred[i])]

not_mask(mask) == [i \in 1..Len(mask) |-> ~mask[i]]

\* np.sign(monthly_residuals) * np.log1p(np.abs(monthly_residuals))
signed_log1p(resids) ==
  ndarray([i \in 1..Len(resids) |->
             fmul(np_sign(resids[i]), np_log1p(np_abs(resids[i])))])

\* resids and pred are the arrays after the NaN removal; lambdas and
\* transformed_resids are bound to the arrays the two calls return; transf is
\* the content of the buffer of _yeo_johnson_transform before the call
_neg_log_likelihood(coeffs, resids, pred, resids_log1p, data_log1p, data_log1p_sum, transf) ==
  LET n_samples == Len(resids)
      loglikelihood(lambdas, transformed_resids) ==
        LET loglik0 == fmul(fdiv(FromInt(0 - n_samples), Two),
                            np_log(np_var(transformed_resids)))
            jac == fsub(np_sum(ndarray([i \in 1..n_samples |->
                                          fmul(lambdas[i], data_log1p[i])])),
                        data_log1p_sum)
        IN  fneg(fadd(loglik0, jac))
  IN  CHOOSE value \in
        { loglikelihood(lambdas, transformed_resids) :
            <<lambdas, transformed_resids>> \in
              { <<l, _inner(resids, resids_log1p, transf, l)>> :
                  l \in {lambda_function_arr(coeffs, pred)} } } : TRUE

\* bounds = [[0, inf], [-0.1, 0.1]] and first_guess = [1.0, 0.0]
bounds == << <<0, PInf>>, <<fneg(FromRatio(1, 10)), FromRatio(1, 10)>> >>
first_guess == <<One, 0>>

clip_to_bounds_skipped(x) == x
clip_to_bounds(x) ==
  <<np_clip(x[1], bounds[1][1], bounds[1][2]), np_clip(x[2], bounds[2][1], bounds[2][2])>>

\* The points the simplex search tries, before clipping: moves of the first guess
\* that shrink, grow and reflect xi_0 and xi_1, several of them across a bound.
trial_points ==
  << <<FromRatio(1, 4), 0>>, <<FromInt(4), 0>>, <<fneg(One), FromRatio(1, 5)>>,
     <<fneg(One), 0>>, <<One, FromRatio(1, 5)>>, <<One, fneg(FromRatio(1, 5))>>,
     <<FromInt(4), fneg(FromRatio(1, 5))>> >>

\* minimize(_neg_log_likelihood, x0=first_guess, bounds=bounds,
\* method="Nelder-Mead"): every point the search evaluates is clipped into the
\* bounds; a point replaces the best one only if its value is strictly smaller
\* (never when either value is NaN); the result is the best point found.
simplex_points(x0) ==
  <<clip_to_bounds(x0)>> \o [k \in 1..Len(trial_points) |-> clip_to_bounds(trial_points[k])]

RECURSIVE argbest(_, _)
argbest(fsim, k) ==
  IF k <= 1 THEN 1
  ELSE LET b == argbest(fsim, k - 1)
       IN  IF flt(fsim[k], fsim[b]) THEN k ELSE b

\* The buffer transf of the closure _yeo_johnson_transform is allocated once
\* for a fit and written by every evaluation of the objective: its content
\* before the first evaluation (empty), before each later one, and after the
\* k-th, which was made at the point sim[k]
RECURSIVE transf_history(_, _, _, _, _, _)
transf_history(k, sim, resids, pred, resids_log1p, empty) ==
  IF k = 0 THEN <<empty>>
  ELSE CHOOSE history \in
         { Append(before, _inner(resids, resids_log1p, before[k], lambdas)) :
             <<before, lambdas>> \in
               { <<transf_history(k - 1, sim, resids, pred, resids_log1p, empty),
                   lambda_function_arr(sim[k], pred)>> } } : TRUE

\* sim is bound to the points of the search, transf to the contents of the
\* buffer and fsim to the objective's values at the points; res.x is the best
\* point.  empty is what np.empty_like handed to the closure.
_yeo_johnson_optimize_lambda_np(monthly_residuals, yearly_pred, empty) ==
  LET isnan == isnan_either(monthly_residuals, yearly_pred)
      resids == Compress(monthly_residuals, not_mask(isnan))
      pred == Compress(yearly_pred, not_mask(isnan))
      resids_log1p == data_log1p_of(resids)
      data_log1p == signed_log1p(resids)
      data_log1p_sum == np_sum(data_log1p)
      fun(c, transf) == _neg_log_likelihood(c, resids, pred, resids_log1p,
                                            data_log1p, data_log1p_sum, transf)
  IN  CHOOSE x \in
        { sim[argbest(fsim, Len(sim))] :
            <<sim, fsim>> \in
              { <<s[1], ndarray([k \in 1..Len(s[1]) |-> fun(s[1][k], s[2][k])])>> :
                  s \in { <<points, transf_history(Len(points), points, r, p, r_log1p,
                                                   e)>> :
                            <<points, r, p, r_log1p, e>> \in
                              { <<simplex_points(first_guess), resids, pred,
                                  resids_log1p, empty>> } } } } : TRUE

(***************************************************************************)
(* The orchestration.  A DataArray (time, gridcell) is a sequence over     *)
(* time of sequences over gridcells; months and years count from 1.        *)
(***************************************************************************)
MonthsPerYear == 12

column_first(arr, g) == ndarray([k \in 1..Len(arr) |-> arr[k][1]])
column(arr, g) == ndarray([k \in 1..Len(arr) |-> arr[k][g]])
n_gridcells(arr) == IF Len(arr) = 0 THEN 0 ELSE Len(arr[1])

isel_month_contiguous(arr, month) ==
  LET n == Len(arr) \div MonthsPerYear
  IN  [k \in 1..n |-> arr[month * n + k]]
\* isel({time_dim: slice(month, None, 12)}), month in 0..11
isel_month(arr, month) ==
  LET n == IF Len(arr) > month THEN (Len(arr) - month - 1) \div MonthsPerYear + 1 ELSE 0
  IN  [k \in 1..n |-> arr[month + 1 + MonthsPerYear * (k - 1)]]

\* fit_yeo_johnson_transform: lambda_coeffs (month, gridcell, coeff)
fit_yeo_johnson_transform(monthly_residuals, yearly_pred) ==
  [m \in 1..MonthsPerYear |->
     LET monthly_data == isel_month(monthly_residuals, m - 1)
     IN  [g \in 1..n_gridcells(monthly_residuals) |->
            CHOOSE res \in
              { _yeo_johnson_optimize_lambda_np(r, y, empty_like(r)) :
                  <<r, y>> \in {<<column(monthly_data, g), column(yearly_pred, g)>>} } :
              TRUE]]

\* get_lambdas_from_covariates: lambdas (month, gridcell, time)
get_lambdas_from_covariates(coeffs, yearly_pred) ==
  [m \in 1..Len(coeffs) |->
     [g \in 1..Len(coeffs[m]) |->
        [y \in 1..Len(yearly_pred) |-> lambda_function(coeffs[m][g], yearly_pred[y][g])]]]

\* lambdas.stack(stack=["year", "month"]): position s of the stacked axis holds
\* year stack_year(s) and month stack_month(s), the year varying slowest
stack_year(s) == (s - 1) \div MonthsPerYear + 1
stack_month(s) == ((s - 1) % MonthsPerYear) + 1

lambdas_stacked_month_major(lambdas, g) ==
  LET n_years == Len(lambdas[1][g])
  IN  [s \in 1..(n_years * Len(lambdas)) |->
         lambdas[(s - 1) \div n_years + 1][g][((s - 1) % n_years) + 1]]
lambdas_stacked(lambdas, g) ==
  LET n_years == Len(lambdas[1][g])
  IN  [s \in 1..(n_years * Len(lambdas)) |-> lambdas[stack_month(s)][g][stack_year(s)]]

\* a result of apply_ufunc over the gridcells, as an array (time, gridcell)
by_time(per_gridcell, n_time) ==
  [t \in 1..n_time |-> [g \in 1..Len(per_gridcell) |-> per_gridcell[g][t]]]

\* yeo_johnson_transform: the Dataset of "transformed" and "lambdas"
yeo_johnson_transform(monthly_residuals, coeffs, yearly_pred) ==
  LET lambdas == get_lambdas_from_covariates(coeffs, yearly_pred)
      transformed_resids ==
        [g \in 1..n_gridcells(monthly_residuals) |->
           _yeo_johnson_transform_np(column(monthly_residuals, g),
                                     lambdas_stacked(lambdas, g),
                                     empty_like(column(monthly_residuals, g)))]
  IN  [transformed |-> by_time(transformed_resids, Len(monthly_residuals)),
       lambdas |-> lambdas]

\* inverse_yeo_johnson_transform: the Dataset of "inverted" and "lambdas"; empty
\* is the content of the buffer np.empty_like hands to each gridcell's call
inverse_yeo_johnson_transform(monthly_residuals, coeffs, yearly_pred, empty) ==
  LET lambdas == get_lambdas_from_covariates(coeffs, yearly_pred)
      inverted_resids ==
        [g \in 1..n_gridcells(monthly_residuals) |->
           _yeo_johnson_inverse_transform_np(column(monthly_residuals, g),
                                             lambdas_stacked(lambdas, g), empty)]
  IN  [inverted |-> by_time(inverted_resids, Len(monthly_residuals)),
       lambdas |-> lambdas]

(***************************************************************************)
(* How a call ends.  The four functions check the types of their arguments *)
(* first; the lengths of the arrays are checked by no statement, and a     *)
(* call with arrays that do not fit ends where numpy refuses them.         *)
(***************************************************************************)
NoError == [type |-> "none", got |-> "none"]
TypeError(got) == [type |-> "TypeError", got |-> got]
ValueError == [type |-> "ValueError", got |-> "none"]
IndexError == [type |-> "IndexError", got |-> "none"]

isinstance_of_anything(type, class) == TRUE
isinstance(type, class) == type = class

\* the calls of lambda_function and of a kernel or the fitter a call completed
Computed(n_lambdas, n_units) == [lambda_function |-> n_lambdas, units |-> n_units]

\* the length of the result of an elementwise operation on arrays of n and m
\* elements: a length of 1 is broadcast, two other lengths that differ are
\* refused (-1)
broadcast_shapes(n, m) == IF n = m \/ m = 1 THEN n ELSE IF n = 1 THEN m ELSE 0 - 1

\* _yeo_johnson_optimize_lambda_np on n_residuals residuals and n_pred covariate
\* values: isnan has the broadcast length, and indexes both arrays
optimize_lambda_raises(n_residuals, n_pred) ==
  LET n_isnan == broadcast_shapes(n_residuals, n_pred)
  IN  IF n_isnan < 0 THEN ValueError
      ELSE IF n_residuals # n_isnan \/ n_pred # n_isnan THEN IndexError
      ELSE NoError

\* _yeo_johnson_transform_np: np.where broadcasts pos and lambdas, and the masks
\* of that length index transf and data_log1p, which have the length of data
transform_np_raises(n_data, n_lambdas) ==
  LET n_aligned == broadcast_shapes(n_data, n_lambdas)
  IN  IF n_aligned < 0 THEN ValueError
      ELSE IF n_data # n_aligned THEN IndexError
      ELSE NoError

\* _yeo_johnson_inverse_transform_np: the four masks have the broadcast length
\* and index transf, data and lambdas
inverse_transform_np_raises(n_data, n_lambdas) ==
  LET n_sel == broadcast_shapes(n_data, n_lambdas)
  IN  IF n_sel < 0 THEN ValueError
      ELSE IF n_data # n_sel \/ n_lambdas # n_sel THEN IndexError
      ELSE NoError

\* the months, in the order of the loop, whose fit raises
months_raising(monthly_residuals, yearly_pred) ==
  {month \in 0..(MonthsPerYear - 1) :
     optimize_lambda_raises(Len(isel_month(monthly_residuals, month)),
                            Len(yearly_pred)) # NoError}
first_month_raising(monthly_residuals, yearly_pred) ==
  CHOOSE month \in months_raising(monthly_residuals, yearly_pred) :
    \A other \in months_raising(monthly_residuals, yearly_pred) : month <= other

fit_raises(types, monthly_residuals, yearly_pred) ==
  IF ~isinstance(types.monthly_residuals, "DataArray")
    THEN TypeError(types.monthly_residuals)
  ELSE IF ~isinstance(types.yearly_pred, "DataArray")
    THEN TypeError(types.yearly_pred)
  ELSE IF months_raising(monthly_residuals, yearly_pred) = {} THEN NoError
  ELSE optimize_lambda_raises(
         Len(isel_month(monthly_residuals,
                        first_month_raising(monthly_residuals, yearly_pred))),
         Len(yearly_pred))

\* the fits completed when fit_yeo_johnson_transform ends: the months are fitted
\* in turn, each for every gridcell
fit_computed(types, monthly_residuals, yearly_pred) ==
  IF ~isinstance(types.monthly_residuals, "DataArray")
       \/ ~isinstance(types.yearly_pred, "DataArray")
    THEN Computed(0, 0)
  ELSE IF months_raising(monthly_residuals, yearly_pred) = {}
    THEN Computed(0, MonthsPerYear * n_gridcells(monthly_residuals))
  ELSE Computed(0, first_month_raising(monthly_residuals, yearly_pred)
                     * n_gridcells(monthly_residuals))

get_lambdas_raises(types) ==
  IF ~isinstance(types.coeffs, "Dataset") THEN TypeError(types.coeffs)
  ELSE IF ~isinstance(types.yearly_pred, "DataArray") THEN TypeError(types.yearly_pred)
  ELSE NoError

\* one call of lambda_function for every month, gridcell and year
n_lambdas(coeffs, yearly_pred) ==
  Len(coeffs) * n_gridcells(coeffs) * Len(yearly_pred)

\* the three checks yeo_johnson_transform and inverse_yeo_johnson_transform open with
transform_type_error(types) ==
  IF ~isinstance(types.monthly_residuals, "DataArray")
    THEN TypeError(types.monthly_residuals)
  ELSE IF ~isinstance(types.yearly_pred, "DataArray")
    THEN TypeError(types.yearly_pred)
  ELSE IF ~isinstance(types.coeffs, "Dataset")
    THEN TypeError(types.monthly_residuals)
  ELSE NoError

\* .rename({"time": "year"}) of the lambdas, whose axes are those of the covariate
rename_time_raises(time_dim) == IF time_dim = "time" THEN NoError ELSE ValueError

yeo_johnson_transform_raises(types, time_dim, monthly_residuals, coeffs, yearly_pred) ==
  IF transform_type_error(types) # NoError THEN transform_type_error(types)
  ELSE IF rename_time_raises(time_dim) # NoError THEN rename_time_raises(time_dim)
  ELSE transform_np_raises(Len(monthly_residuals), Len(yearly_pred) * Len(coeffs))

inverse_yeo_johnson_transform_raises(types, time_dim, monthly_residuals, coeffs, yearly_pred) ==
  IF transform_type_error(types) # NoError THEN transform_type_error(types)
  ELSE IF rename_time_raises(time_dim) # NoError THEN rename_time_raises(time_dim)
  ELSE inverse_transform_np_raises(Len(monthly_residuals),
                                   Len(yearly_pred) * Len(coeffs))

\* the lambdas are computed before the axis is renamed; the gridcells are
\* transformed in turn, and the first is refused if any is
transform_computed(raises, monthly_residuals, coeffs, yearly_pred) ==
  IF raises.type = "TypeError" THEN Computed(0, 0)
  ELSE IF raises # NoError THEN Computed(n_lambdas(coeffs, yearly_pred), 0)
  ELSE Computed(n_lambdas(coeffs, yearly_pred), n_gridcells(monthly_residuals))

(***************************************************************************)
(* Values the calls are made with.  A value of the format is a mantissa of *)
(* MantBits bits times a power of two; the sets below take a few mantissas *)
(* at every exponent of the format, the subnormals, zero, the infinities   *)
(* and NaN.                                                                *)
(***************************************************************************)
MaxLen == 2

Mants == {Pow2(MantBits - 1), Pow2(MantBits - 1) + 1, 3 * Pow2(MantBits - 2),
          Pow2(MantBits) - 1}
Exps == 0..(FracBits + TopExp - MantBits)
Subnormals == {Pow2(0), 3, Pow2(MantBits - 1) - 1}
Magnitudes == {m * Pow2(e) : m \in Mants, e \in Exps} \cup Subnormals
DataValues == {0, PInf, NInf, NaN} \cup Magnitudes \cup {0 - v : v \in Magnitudes}

LambdaValues ==
  {0, Pow2(0), eps \div 2, eps - 1, eps, eps + 1, 2 * eps, Pow2(FracBits \div 2),
   FromRatio(1, 10), FromRatio(1, 2), One - eps \div 2, One, One + eps,
   FromRatio(3, 2), FromRatio(19, 10), Two - 2 * eps, Two - eps, Two, Two + 2 * eps,
   FromRatio(5, 2), 0 - eps, 0 - FromRatio(1, 2), PInf, NaN}

\* what a freshly allocated, uninitialised array can hold
Garbage == {0, 0 - FromInt(7), NaN}

SmallData == {0 - One, 0, FromRatio(3, 2), NaN}
SmallLambdas == {0, One, Two}

SeqsOf(S, lo, hi) == UNION {[1..n -> S] : n \in lo..hi}

VARIABLES
  op,                \* the call made last
  data,              \* kernel input array
  lambdas,           \* lambdas: a kernel's input, lambda_function's result
  empty,             \* what np.empty_like handed to the last kernel call
  transformed,       \* result of the forward transformation
  inverted,          \* result of the inverse transformation
  coeffs,            \* lambda_function's coefficients <<xi_0, xi_1>>
  local_yearly_T,    \* lambda_function's covariate array
  monthly_residuals, \* residuals: (time) for the fitter, (time, gridcell) above it
  yearly_pred,       \* covariate: (year) for the fitter, (year, gridcell) above it
  lambda_coeffs,     \* coefficients: a fit's result, a transformation's input
  prev_coeffs,       \* the coefficients fitted before an input was changed
  changed,           \* the input cell changed since: <<array, index, gridcell>>
  types,             \* the Python types of the arguments of a call
  time_dim,          \* the name of the time axis of the two arrays
  raised,            \* the exception the last call raised
  computed,          \* the kernel or fitter calls the last call completed
  heap,              \* the array objects allocated so far, by identity
  cache,             \* functools.cache of _load_aod_obs: arguments to object
  held,              \* the results callers hold: identity, origin, value returned
  closure            \* the per-fit kernel: the objects _inner is closed over

vars == <<op, data, lambdas, empty, transformed, inverted, coeffs, local_yearly_T,
          monthly_residuals, yearly_pred, lambda_coeffs, prev_coeffs, changed,
          types, time_dim, raised, computed, heap, cache, held, closure>>

Unset == <<>>

\* no array object has been allocated, nothing is cached, no caller holds a
\* result and no closure exists
NoObjects ==
  heap = <<>> /\ cache = <<>> /\ held = <<>> /\ closure = Unset

\* the types the four functions check their arguments for
ValidTypes ==
  [monthly_residuals |-> "DataArray", coeffs |-> "Dataset", yearly_pred |-> "DataArray"]
\* the callers of the kernels, of lambda_function and of the fitter pass arrays
\* of one length on the axis "time"
WellFormedCall ==
  /\ types = ValidTypes
  /\ time_dim = "time"
  /\ raised = NoError
  /\ computed = Computed(0, 0)

(***************************************************************************)
(* Calls of the two kernels.                                               *)
(***************************************************************************)
InitKernel ==
  /\ op = "start_kernel"
  /\ WellFormedCall
  /\ NoObjects
  /\ \/ data \in SeqsOf(DataValues, 1, 1) /\ lambdas \in SeqsOf(LambdaValues, 1, 1)
     \/ \E n \in 2..MaxLen : data \in [1..n -> SmallData] /\ lambdas \in [1..n -> SmallLambdas]
  /\ empty = Unset
  /\ transformed = Unset
  /\ inverted = Unset
  /\ coeffs = Unset
  /\ local_yearly_T = Unset
  /\ monthly_residuals = Unset
  /\ yearly_pred = Unset
  /\ lambda_coeffs = Unset
  /\ prev_coeffs = Unset
  /\ changed = Unset

\* transformed = _yeo_johnson_transform_np(data, lambdas)
CallTransform ==
  /\ op = "start_kernel"
  /\ \E junk \in Garbage :
       /\ empty' = [i \in 1..Len(data) |-> junk]
       /\ transformed' = _yeo_johnson_transform_np(data, lambdas, empty')
  /\ op' = "transform"
  /\ UNCHANGED <<data, lambdas, inverted, coeffs, local_yearly_T,
                 monthly_residuals, yearly_pred, lambda_coeffs, prev_coeffs, changed,
                 types, time_dim, raised, computed,
                 heap, cache, held, closure>>

\* inverted = _yeo_johnson_inverse_transform_np(transformed, lambdas)
CallInverse ==
  /\ op = "transform"
  /\ \E junk \in Garbage :
       /\ empty' = [i \in 1..Len(data) |-> junk]
       /\ inverted' = _yeo_johnson_inverse_transform_np(transformed, lambdas, empty')
  /\ op' = "roundtrip"
  /\ UNCHANGED <<data, lambdas, transformed, coeffs, local_yearly_T,
                 monthly_residuals, yearly_pred, lambda_coeffs, prev_coeffs, changed,
                 types, time_dim, raised, computed,
                 heap, cache, held, closure>>

\* inverted = _yeo_johnson_inverse_transform_np(data, lambdas)
CallInverseOnData ==
  /\ op = "start_kernel"
  /\ \E junk \in Garbage :
       /\ empty' = [i \in 1..Len(data) |-> junk]
       /\ inverted' = _yeo_johnson_inverse_transform_np(data, lambdas, empty')
  /\ op' = "inverse"
  /\ UNCHANGED <<data, lambdas, transformed, coeffs, local_yearly_T,
                 monthly_residuals, yearly_pred, lambda_coeffs, prev_coeffs, changed,
                 types, time_dim, raised, computed,
                 heap, cache, held, closure>>

NextKernel == CallTransform \/ CallInverse \/ CallInverseOnData

SpecKernel == InitKernel /\ [][NextKernel]_vars

(***************************************************************************)
(* Calls of lambda_function.                                               *)
(***************************************************************************)
Xi0Values ==
  {0, Pow2(0), eps \div 4, eps \div 2, eps, 4 * eps, FromRatio(1, 10), FromRatio(1, 2),
   One, Two, FromInt(4), Pow2(TopExp - 2) * One, MaxFinite \div 2, MaxFinite,
   0 - One, PInf, NaN}
Xi1Values ==
  {0 - MaxFinite, 0 - One, 0 - FromRatio(1, 10), 0 - 1, 0, Pow2(0), FromRatio(1, 10),
   One, MaxFinite, NaN}
CovariateValues ==
  {0 - MaxFinite, 0 - FromInt(4), 0 - One, 0 - FromRatio(1, 2), 0, Pow2(0),
   FromRatio(1, 2), One, FromInt(4), MaxFinite, PInf, NaN}
SmallCovariates == {0 - One, 0, FromInt(4)}

InitLambda ==
  /\ op = "start_lambda"
  /\ WellFormedCall
  /\ NoObjects
  /\ coeffs \in Xi0Values \X Xi1Values
  /\ \/ local_yearly_T \in SeqsOf(CovariateValues, 1, 1)
     \/ local_yearly_T \in SeqsOf(SmallCovariates, 2, MaxLen)
  /\ lambdas = Unset
  /\ data = Unset
  /\ empty = Unset
  /\ transformed = Unset
  /\ inverted = Unset
  /\ monthly_residuals = Unset
  /\ yearly_pred = Unset
  /\ lambda_coeffs = Unset
  /\ prev_coeffs = Unset
  /\ changed = Unset

\* lambdas = lambda_function(coeffs, local_yearly_T)
CallLambdaFunction ==
  /\ op = "start_lambda"
  /\ lambdas' = lambda_function_arr(coeffs, local_yearly_T)
  /\ op' = "lambda_function"
  /\ UNCHANGED <<data, empty, transformed, inverted, coeffs, local_yearly_T,
                 monthly_residuals, yearly_pred, lambda_coeffs, prev_coeffs, changed,
                 types, time_dim, raised, computed,
                 heap, cache, held, closure>>

NextLambda == CallLambdaFunction

SpecLambda == InitLambda /\ [][NextLambda]_vars

(***************************************************************************)
(* Calls of the fitter on one month's residuals of one gridcell.           *)
(***************************************************************************)
MaxSamples == 4

\* sample series: skewed to the right, skewed to the left, symmetric, constant,
\* all zero, and subnormal
BaseResiduals ==
  { [i \in 1..MaxSamples |-> fsub(FromRatio(i * i, 2), One)],
    [i \in 1..MaxSamples |-> fsub(One, FromRatio(i * i, 2))],
    [i \in 1..MaxSamples |-> FromRatio(2 * i - 5, 2)],
    [i \in 1..MaxSamples |-> One],
    [i \in 1..MaxSamples |-> 0],
    [i \in 1..MaxSamples |-> i] }

\* covariate series: flat, rising, falling
BasePreds ==
  { [i \in 1..MaxSamples |-> 0],
    [i \in 1..MaxSamples |-> FromInt(2 * i - 3)],
    [i \in 1..MaxSamples |-> FromInt(9 - 4 * i)] }

\* the first n values of a series, with NaN at position k (nowhere for k = 0)
Series(base, n, k) == [i \in 1..n |-> IF i = k THEN NaN ELSE base[i]]

InitFitter ==
  /\ op = "start_fitter"
  /\ WellFormedCall
  /\ NoObjects
  /\ \E n \in 0..MaxSamples, r \in BaseResiduals, y \in BasePreds :
       \E kr \in 0..n, ky \in 0..n :
         /\ monthly_residuals = Series(r, n, kr)
         /\ yearly_pred = Series(y, n, ky)
  /\ lambda_coeffs = Unset
  /\ data = Unset
  /\ lambdas = Unset
  /\ empty = Unset
  /\ transformed = Unset
  /\ inverted = Unset
  /\ coeffs = Unset
  /\ local_yearly_T = Unset
  /\ prev_coeffs = Unset
  /\ changed = Unset

\* lambda_coeffs = _yeo_johnson_optimize_lambda_np(monthly_residuals, yearly_pred)
CallOptimize ==
  /\ op = "start_fitter"
  /\ lambda_coeffs' =
       _yeo_johnson_optimize_lambda_np(monthly_residuals, yearly_pred,
                                       empty_like(monthly_residuals))
  /\ op' = "fit"
  /\ UNCHANGED <<data, lambdas, empty, transformed, inverted, coeffs, local_yearly_T,
                 monthly_residuals, yearly_pred, prev_coeffs, changed,
                 types, time_dim, raised, computed,
                 heap, cache, held, closure>>

NextFitter == CallOptimize

SpecFitter == InitFitter /\ [][NextFitter]_vars

(***************************************************************************)
(* Two calls of _yeo_johnson_optimize_lambda_np on the same residuals and  *)
(* the same covariate.  np.empty_like gives each call a buffer holding     *)
(* whatever its memory held.                                               *)
(***************************************************************************)

InitRuns ==
  /\ op = "start_runs"
  /\ WellFormedCall
  /\ NoObjects
  /\ \E n \in 0..MaxSamples, r \in BaseResiduals, y \in BasePreds :
       \E kr \in 0..n, ky \in 0..n :
         /\ monthly_residuals = Series(r, n, kr)
         /\ yearly_pred = Series(y, n, ky)
  /\ lambda_coeffs = Unset
  /\ data = Unset
  /\ lambdas = Unset
  /\ empty = Unset
  /\ transformed = Unset
  /\ inverted = Unset
  /\ coeffs = Unset
  /\ local_yearly_T = Unset
  /\ prev_coeffs = Unset
  /\ changed = Unset

\* lambda_coeffs = _yeo_johnson_optimize_lambda_np(monthly_residuals, yearly_pred);
\* the caller keeps the coefficients of the call before as prev_coeffs
RunOptimize ==
  /\ op \in {"start_runs", "run"}
  /\ \E junk \in Garbage :
       lambda_coeffs' =
         _yeo_johnson_optimize_lambda_np(monthly_residuals, yearly_pred,
                                         [i \in 1..Len(monthly_residuals) |-> junk])
  /\ prev_coeffs' = lambda_coeffs
  /\ op' = IF op = "start_runs" THEN "run" ELSE "run_again"
  /\ UNCHANGED <<data, lambdas, empty, transformed, inverted, coeffs, local_yearly_T,
                 monthly_residuals, yearly_pred, changed,
                 types, time_dim, raised, computed,
                 heap, cache, held, closure>>

NextRuns == RunOptimize

SpecRuns == InitRuns /\ [][NextRuns]_vars

(***************************************************************************)
(* Calls of yeo_johnson_transform and inverse_yeo_johnson_transform on     *)
(* residuals (time, gridcell) with given coefficients (month, gridcell)    *)
(* and a covariate (year, gridcell).                                       *)
(***************************************************************************)
NYears == 2
NGridcells == 2

NTime == MonthsPerYear * NYears
time_year(t) == (t - 1) \div MonthsPerYear + 1
time_month(t) == (t - 1) % MonthsPerYear

\* residual fields: growing with the year and the gridcell; the same with the
\* sign alternating from month to month; centred on 0; and one holding a NaN
GrowingResidual(t, g) ==
  fsub(FromRatio((time_year(t) + g) * (time_year(t) + g) + time_month(t), 4), One)
ResidualFields ==
  { [t \in 1..NTime |-> [g \in 1..NGridcells |-> GrowingResidual(t, g)]],
    [t \in 1..NTime |-> [g \in 1..NGridcells |->
       IF time_month(t) % 2 = 0 THEN fneg(GrowingResidual(t, g))
       ELSE GrowingResidual(t, g)]],
    [t \in 1..NTime |-> [g \in 1..NGridcells |->
       FromRatio(2 * (time_month(t) + g * time_year(t)) - 13, 4)]],
    [t \in 1..NTime |-> [g \in 1..NGridcells |->
       IF t = 2 /\ g = 1 THEN NaN ELSE fneg(GrowingResidual(t, g))]] }

\* covariate fields: flat, and trends that differ between the gridcells
CovariateFields ==
  { [y \in 1..NYears |-> [g \in 1..NGridcells |-> 0]],
    [y \in 1..NYears |-> [g \in 1..NGridcells |-> FromInt(2 * y - 3 * g + 1)]],
    [y \in 1..NYears |-> [g \in 1..NGridcells |-> FromRatio(g - 4 * y, 2)]] }

\* coefficient fields: the first guess everywhere; coefficients that differ in
\* every month and gridcell; and one with xi_0 on its lower bound
CoefficientFields ==
  { [m \in 1..MonthsPerYear |-> [g \in 1..NGridcells |-> first_guess]],
    [m \in 1..MonthsPerYear |-> [g \in 1..NGridcells |->
       <<FromRatio(m + 3 * g, 8),
         IF m % 2 = 0 THEN FromRatio(1, 10) ELSE fneg(FromRatio(1, 16))>>]],
    [m \in 1..MonthsPerYear |-> [g \in 1..NGridcells |->
       <<IF m % 3 = 0 THEN 0 ELSE FromInt(g + 1), FromRatio(m - 6, 64)>>]] }

InitTransform ==
  /\ op = "start_transform"
  /\ WellFormedCall
  /\ NoObjects
  /\ monthly_residuals \in ResidualFields
  /\ yearly_pred \in CovariateFields
  /\ lambda_coeffs \in CoefficientFields
  /\ data = Unset
  /\ lambdas = Unset
  /\ empty = Unset
  /\ transformed = Unset
  /\ inverted = Unset
  /\ coeffs = Unset
  /\ local_yearly_T = Unset
  /\ prev_coeffs = Unset
  /\ changed = Unset

\* yeo_johnson_transform(monthly_residuals, lambda_coeffs, yearly_pred)
Transform ==
  /\ \/ op = "start_transform"
     \/ op = "fit_yeo_johnson_transform" /\ raised = NoError
  /\ raised' = yeo_johnson_transform_raises(types, time_dim, monthly_residuals,
                                            lambda_coeffs, yearly_pred)
  /\ computed' = transform_computed(raised', monthly_residuals, lambda_coeffs,
                                    yearly_pred)
  /\ IF raised' = NoError
       THEN LET ds == yeo_johnson_transform(monthly_residuals, lambda_coeffs,
                                            yearly_pred)
            IN  transformed' = ds.transformed /\ lambdas' = ds.lambdas
       ELSE UNCHANGED <<transformed, lambdas>>
  /\ op' = "yeo_johnson_transform"
  /\ UNCHANGED <<data, empty, inverted, coeffs, local_yearly_T, monthly_residuals,
                 yearly_pred, lambda_coeffs, prev_coeffs, changed, types, time_dim,
                 heap, cache, held, closure>>

\* the residuals inverse_yeo_johnson_transform is called with: the result of
\* yeo_johnson_transform, or the caller's residuals (with given coefficients or
\* with the coefficients just fitted to them)
inverse_argument ==
  IF op = "yeo_johnson_transform" THEN transformed ELSE monthly_residuals

\* inverse_yeo_johnson_transform(inverse_argument, lambda_coeffs, yearly_pred)
InverseTransform ==
  /\ \/ op = "yeo_johnson_transform" /\ raised = NoError
     \/ op = "fit_yeo_johnson_transform" /\ raised = NoError
     \/ op = "start_inverse"
  /\ raised' = inverse_yeo_johnson_transform_raises(types, time_dim, inverse_argument,
                                                    lambda_coeffs, yearly_pred)
  /\ computed' = transform_computed(raised', inverse_argument, lambda_coeffs,
                                    yearly_pred)
  /\ IF raised' = NoError
       THEN \E junk \in Garbage :
              /\ empty' = [i \in 1..Len(inverse_argument) |-> junk]
              /\ inverted' = inverse_yeo_johnson_transform(inverse_argument,
                                                          lambda_coeffs, yearly_pred,
                                                          empty').inverted
       ELSE UNCHANGED <<empty, inverted>>
  /\ op' = "inverse_yeo_johnson_transform"
  /\ UNCHANGED <<data, lambdas, transformed, coeffs, local_yearly_T,
                 monthly_residuals, yearly_pred, lambda_coeffs, prev_coeffs, changed,
                 types, time_dim,
                 heap, cache, held, closure>>

NextTransform == Transform \/ InverseTransform

\* the kernels and the two transformations built on them
SpecTransform ==
  (InitKernel \/ InitTransform) /\ [][NextKernel \/ NextTransform]_vars

(***************************************************************************)
(* Calls of fit_yeo_johnson_transform, and a caller that changes one cell  *)
(* of an input and fits again.                                             *)
(***************************************************************************)
InitFit ==
  /\ op = "start_fit"
  /\ WellFormedCall
  /\ NoObjects
  /\ monthly_residuals \in ResidualFields
  /\ yearly_pred \in CovariateFields
  /\ lambda_coeffs = Unset
  /\ data = Unset
  /\ lambdas = Unset
  /\ empty = Unset
  /\ transformed = Unset
  /\ inverted = Unset
  /\ coeffs = Unset
  /\ local_yearly_T = Unset
  /\ prev_coeffs = Unset
  /\ changed = Unset

\* lambda_coeffs = fit_yeo_johnson_transform(monthly_residuals, yearly_pred)
Fit ==
  /\ op \in {"start_fit", "changed"}
  /\ raised' = fit_raises(types, monthly_residuals, yearly_pred)
  /\ computed' = fit_computed(types, monthly_residuals, yearly_pred)
  /\ IF raised' = NoError
       THEN lambda_coeffs' = fit_yeo_johnson_transform(monthly_residuals, yearly_pred)
       ELSE UNCHANGED lambda_coeffs
  /\ op' = "fit_yeo_johnson_transform"
  /\ UNCHANGED <<data, lambdas, empty, transformed, inverted, coeffs, local_yearly_T,
                 monthly_residuals, yearly_pred, prev_coeffs, changed, types, time_dim,
                 heap, cache, held, closure>>

ChangedValues == {fneg(FromInt(6)), NaN}
\* the time steps a residual is changed at: in the first and in the last year,
\* in the first, the second and the last month
ChangedTimes(n_time) == {1, 2, MonthsPerYear + 1, n_time}

\* the caller replaces one residual
ChangeResidual ==
  /\ op = "fit_yeo_johnson_transform" /\ raised = NoError /\ changed = Unset
  /\ \E t \in ChangedTimes(Len(monthly_residuals)), g \in 1..NGridcells,
        v \in ChangedValues :
       /\ monthly_residuals[t][g] # v
       /\ monthly_residuals' = [monthly_residuals EXCEPT ![t][g] = v]
       /\ changed' = <<"monthly_residuals", t, g>>
  /\ prev_coeffs' = lambda_coeffs
  /\ op' = "changed"
  /\ UNCHANGED <<data, lambdas, empty, transformed, inverted, coeffs, local_yearly_T,
                 yearly_pred, lambda_coeffs,
                 types, time_dim, raised, computed,
                 heap, cache, held, closure>>

\* the caller replaces one covariate value
ChangeCovariate ==
  /\ op = "fit_yeo_johnson_transform" /\ raised = NoError /\ changed = Unset
  /\ \E y \in 1..Len(yearly_pred), g \in 1..NGridcells, v \in ChangedValues :
       /\ yearly_pred[y][g] # v
       /\ yearly_pred' = [yearly_pred EXCEPT ![y][g] = v]
       /\ changed' = <<"yearly_pred", y, g>>
  /\ prev_coeffs' = lambda_coeffs
  /\ op' = "changed"
  /\ UNCHANGED <<data, lambdas, empty, transformed, inverted, coeffs, local_yearly_T,
                 monthly_residuals, lambda_coeffs,
                 types, time_dim, raised, computed,
                 heap, cache, held, closure>>

NextFit == Fit \/ ChangeResidual \/ ChangeCovariate

SpecFit == InitFit /\ [][NextFit]_vars

(***************************************************************************)
(* Calls of the four functions with arguments of any type, with residuals  *)
(* of any length, with a covariate of any number of years and with any     *)
(* name of the time axis; a fit is called with that name as its time_dim.  *)
(***************************************************************************)
ArgTypes == {"DataArray", "Dataset", "ndarray"}
TimeDims == {"time", "t"}
TimeLengths ==
  {1, MonthsPerYear - 1, MonthsPerYear, MonthsPerYear + 1, NTime - 1, NTime, NTime + 1}
YearCounts == 1..(NYears + 1)

ResidualsOfLength(n_time) ==
  [t \in 1..n_time |-> [g \in 1..NGridcells |->
     IF time_month(t) % 2 = 0 THEN fneg(GrowingResidual(t, g))
     ELSE GrowingResidual(t, g)]]
CovariateOfYears(n_years) ==
  [y \in 1..n_years |-> [g \in 1..NGridcells |-> FromInt(2 * y - 3 * g + 1)]]
CoefficientsGiven ==
  [m \in 1..MonthsPerYear |-> [g \in 1..NGridcells |->
     <<FromRatio(m + 3 * g, 8),
       IF m % 2 = 0 THEN FromRatio(1, 10) ELSE fneg(FromRatio(1, 16))>>]]

InitArgs ==
  /\ op \in {"start_fit", "start_transform", "start_inverse", "start_lambdas"}
  /\ NoObjects
  /\ types \in [monthly_residuals : ArgTypes, coeffs : ArgTypes, yearly_pred : ArgTypes]
  /\ time_dim \in TimeDims
  /\ \E n_time \in TimeLengths : monthly_residuals = ResidualsOfLength(n_time)
  /\ \E n_years \in YearCounts : yearly_pred = CovariateOfYears(n_years)
  /\ IF op = "start_fit"
       THEN lambda_coeffs = Unset /\ types.coeffs = "Dataset"
       ELSE lambda_coeffs = CoefficientsGiven
  /\ op = "start_lambdas" =>
       /\ types.monthly_residuals = "DataArray"
       /\ Len(monthly_residuals) = MonthsPerYear
  /\ raised = NoError
  /\ computed = Computed(0, 0)
  /\ data = Unset
  /\ lambdas = Unset
  /\ empty = Unset
  /\ transformed = Unset
  /\ inverted = Unset
  /\ coeffs = Unset
  /\ local_yearly_T = Unset
  /\ prev_coeffs = Unset
  /\ changed = Unset

\* lambdas = get_lambdas_from_covariates(lambda_coeffs, yearly_pred)
GetLambdas ==
  /\ op = "start_lambdas"
  /\ raised' = get_lambdas_raises(types)
  /\ IF raised' = NoError
       THEN /\ lambdas' = get_lambdas_from_covariates(lambda_coeffs, yearly_pred)
            /\ computed' = Computed(n_lambdas(lambda_coeffs, yearly_pred), 0)
       ELSE UNCHANGED <<lambdas, computed>>
  /\ op' = "get_lambdas_from_covariates"
  /\ UNCHANGED <<data, empty, transformed, inverted, coeffs, local_yearly_T,
                 monthly_residuals, yearly_pred, lambda_coeffs, prev_coeffs, changed,
                 types, time_dim,
                 heap, cache, held, closure>>

NextArgs == Fit \/ Transform \/ InverseTransform \/ GetLambdas

SpecArgs == InitArgs /\ [][NextArgs]_vars

(***************************************************************************)
(* Every call together.                                                    *)
(***************************************************************************)
(***************************************************************************)
(* load_stratospheric_aerosol_optical_depth_obs and the cache of           *)
(* _load_aod_obs.  Arrays are objects on the heap: a caller holds the      *)
(* identity of what a call returned and may write into it.                 *)
(***************************************************************************)

\* the versions whose file the registry of _fetch_remote_data names
registry == {"2022"}

\* whether REMOTE_RESOURCE.fetch finds the file of a version
_fetch_remote_data_raises(version) ==
  IF version \in registry THEN NoError ELSE ValueError

\* rows (year, month, aod) of isaod_gl_2022.dat below its header
isaod_gl ==
  << [year |-> 1991, month |-> 11, aod |-> FromRatio(1, 4)],
     [year |-> 1991, month |-> 12, aod |-> FromRatio(3, 4)],
     [year |-> 1992, month |-> 1, aod |-> FromRatio(3, 2)],
     [year |-> 1992, month |-> 2, aod |-> FromRatio(5, 4)],
     [year |-> 1992, month |-> 3, aod |-> One] >>

\* pd.to_datetime(df.year + df.month, format="%Y%m"): the first day of the month
to_datetime(row) == [year |-> row.year, month |-> row.month, day |-> 1]

\* xr.DataArray(df.aod.values, coords={"time": time}, name="aod")
DataArray(values, time, name) == [values |-> values, time |-> time, name |-> name]

\* aod.resample(time="YE").mean(): one value per calendar year from the first
\* to the last, labelled with the year's last day
resample_YE_mean(aod) ==
  LET first == aod.time[1].year
      last == aod.time[Len(aod.time)].year
      in_year(y) == [i \in 1..Len(aod.time) |-> aod.time[i].year = y]
      mean(a) == fdiv(np_sum(a), FromInt(Len(a)))
  IN  DataArray([k \in 1..(last - first + 1) |->
                   mean(Compress(aod.values, in_year(first + k - 1)))],
                [k \in 1..(last - first + 1) |->
                   [year |-> first + k - 1, month |-> 12, day |-> 31]],
                aod.name)

\* what _load_aod_obs returns for a version in the registry
_load_aod_obs(version, resample) ==
  LET df == isaod_gl
      time == [i \in 1..Len(df) |-> to_datetime(df[i])]
      aod == DataArray([i \in 1..Len(df) |-> df[i].aod], time, "aod")
  IN  IF resample THEN resample_YE_mean(aod) ELSE aod

\* the object itself where a copy is due
copy_not_made(objects, id) == [heap |-> objects, id |-> id]

\* aod.copy(): deep by default, a new object holding the values and the
\* coordinates of the object id
copy(objects, id) == [heap |-> Append(objects, objects[id]), id |-> Len(objects) + 1]

\* @cache: the object kept for the arguments, after the call has been made if
\* there was none
cached(objects, kept, version, resample) ==
  IF <<version, resample>> \in DOMAIN kept
    THEN [heap |-> objects, cache |-> kept, id |-> kept[<<version, resample>>]]
    ELSE [heap |-> Append(objects, _load_aod_obs(version, resample)),
          cache |-> kept @@ (<<version, resample>> :> Len(objects) + 1),
          id |-> Len(objects) + 1]

MaxLoads == 3
Versions == {"2022", "2021"}
Written == {NaN}

InitCache ==
  /\ op = "start_cache"
  /\ WellFormedCall
  /\ NoObjects
  /\ data = Unset
  /\ lambdas = Unset
  /\ empty = Unset
  /\ transformed = Unset
  /\ inverted = Unset
  /\ coeffs = Unset
  /\ local_yearly_T = Unset
  /\ monthly_residuals = Unset
  /\ yearly_pred = Unset
  /\ lambda_coeffs = Unset
  /\ prev_coeffs = Unset
  /\ changed = Unset

\* load_stratospheric_aerosol_optical_depth_obs(version, resample), the caller
\* keeping what it returns
Load ==
  /\ op \in {"start_cache", "load", "modify"}
  /\ Len(held) < MaxLoads
  /\ \E version \in Versions, resample \in BOOLEAN :
       IF <<version, resample>> \notin DOMAIN cache
          /\ _fetch_remote_data_raises(version) # NoError
         THEN /\ raised' = _fetch_remote_data_raises(version)
              /\ UNCHANGED <<heap, cache, held>>
         ELSE \E aod \in {cached(heap, cache, version, resample)} :
                \E returned \in {copy(aod.heap, aod.id)} :
                  /\ raised' = NoError
                  /\ heap' = returned.heap
                  /\ cache' = aod.cache
                  /\ held' = Append(held, [id |-> returned.id,
                                           version |-> version,
                                           resample |-> resample,
                                           was |-> returned.heap[returned.id]])
  /\ op' = "load"
  /\ UNCHANGED <<data, lambdas, empty, transformed, inverted, coeffs, local_yearly_T,
                 monthly_residuals, yearly_pred, lambda_coeffs, prev_coeffs, changed,
                 types, time_dim, computed, closure>>

\* a caller writes into an array it was returned: a value, or a time stamp
Modify ==
  /\ op \in {"load", "modify"}
  /\ \E h \in 1..Len(held) :
       \/ \E i \in {1, Len(heap[held[h].id].values)}, v \in Written :
            heap' = [heap EXCEPT ![held[h].id].values[i] = v]
       \/ heap' = [heap EXCEPT ![held[h].id].time[1].year = 0]
  /\ op' = "modify"
  /\ UNCHANGED <<data, lambdas, empty, transformed, inverted, coeffs, local_yearly_T,
                 monthly_residuals, yearly_pred, lambda_coeffs, prev_coeffs, changed,
                 types, time_dim, raised, computed, cache, held, closure>>

NextCache == Load \/ Modify

SpecCache == InitCache /\ [][NextCache]_vars

(***************************************************************************)
(* The kernels, lambda_function and the fitter on array objects: each      *)
(* argument is an object on the heap, np.empty_like allocates one, an      *)
(* assignment to transf[...] writes into one, and a caller holds the       *)
(* identity of what a call returned.                                       *)
(***************************************************************************)

\* transf is the argument itself where a new array is due
np_empty_like_same_object(objects, id, junk) == [heap |-> objects, id |-> id]

\* np.empty_like(data): a new object of the shape of the object id, holding
\* whatever its memory held
np_empty_like(objects, id, junk) ==
  [heap |-> Append(objects, [i \in 1..Len(objects[id]) |-> junk]),
   id |-> Len(objects) + 1]

\* _yeo_johnson_transform_optimized(data): the closure _inner, which keeps the
\* argument, data_log1p and the buffer transf
_yeo_johnson_transform_optimized(objects, data_id, junk) ==
  CHOOSE made \in
    { [heap |-> transf.heap,
       closure |-> [data |-> data_id,
                    data_log1p |-> data_log1p_of(objects[data_id]),
                    transf |-> transf.id]] :
        transf \in {np_empty_like(objects, data_id, junk)} } : TRUE

\* the closure of the caller where a call makes its own
kernel_kept_between_calls(objects, kept, data_id, junk) ==
  IF kept # Unset THEN [heap |-> objects, closure |-> kept]
  ELSE _yeo_johnson_transform_optimized(objects, data_id, junk)

\* _yeo_johnson_transform_np makes a closure for every call
kernel_of_call(objects, kept, data_id, junk) ==
  _yeo_johnson_transform_optimized(objects, data_id, junk)

\* _inner(lambdas) of the closure c: writes transf and returns it
inner_call(objects, c, lambdas_id) ==
  [heap |-> [objects EXCEPT ![c.transf] =
               _inner(objects[c.data], c.data_log1p, objects[c.transf],
                      objects[lambdas_id])],
   id |-> c.transf]

\* _yeo_johnson_inverse_transform_np(data, lambdas): allocates transf, writes
\* it under the four masks and returns it
inverse_call(objects, data_id, lambdas_id, junk) ==
  CHOOSE done \in
    { [heap |-> [transf.heap EXCEPT ![transf.id] =
                   _yeo_johnson_inverse_transform_np(objects[data_id],
                                                     objects[lambdas_id],
                                                     transf.heap[transf.id])],
       id |-> transf.id] :
        transf \in {np_empty_like(objects, data_id, junk)} } : TRUE

\* a call that returns a new array holding value
returns_new(objects, value) == [heap |-> Append(objects, value), id |-> Len(objects) + 1]

\* what the caller keeps of a call: the object returned, the function, the
\* objects passed and the value at the return
result_of(id, by, args, objects) ==
  [id |-> id, by |-> by, args |-> args, was |-> objects[id]]

MaxResults == 3
BufferData == { <<0 - One, FromRatio(3, 2)>>, <<FromInt(2), 0>> }
BufferLambdas == { <<0, Two>>, <<FromRatio(1, 2), FromRatio(1, 2)>> }
BufferCoeffs == { <<One, FromRatio(1, 10)>> }
BufferCovariates == { <<0 - One, FromInt(4)>> }

\* the objects passed in: residuals, lambdas, coefficients, covariate
data_id == 1
lambdas_id == 2
coeffs_id == 3
yearly_id == 4

held_by(functions) == {held[h].id : h \in {g \in 1..Len(held) : held[g].by \in functions}}
DataObjects == {data_id} \cup held_by({"_inner", "_yeo_johnson_transform_np"})
LambdaObjects == {lambdas_id} \cup held_by({"lambda_function"})
CoeffObjects == {coeffs_id} \cup held_by({"_yeo_johnson_optimize_lambda_np"})

InitBuffers ==
  /\ op = "start_buffers"
  /\ WellFormedCall
  /\ data \in BufferData
  /\ lambdas \in BufferLambdas
  /\ coeffs \in BufferCoeffs
  /\ local_yearly_T \in BufferCovariates
  /\ heap = <<data, lambdas, coeffs, local_yearly_T>>
  /\ cache = <<>>
  /\ held = <<>>
  /\ closure = Unset
  /\ empty = Unset
  /\ transformed = Unset
  /\ inverted = Unset
  /\ monthly_residuals = Unset
  /\ yearly_pred = Unset
  /\ lambda_coeffs = Unset
  /\ prev_coeffs = Unset
  /\ changed = Unset

\* _yeo_johnson_transform = _yeo_johnson_transform_optimized(data)
MakeOptimized ==
  /\ closure = Unset
  /\ \E junk \in Garbage :
       \E made \in {_yeo_johnson_transform_optimized(heap, data_id, junk)} :
         /\ heap' = made.heap
         /\ closure' = made.closure
  /\ op' = "_yeo_johnson_transform_optimized"
  /\ UNCHANGED <<data, lambdas, empty, transformed, inverted, coeffs, local_yearly_T,
                 monthly_residuals, yearly_pred, lambda_coeffs, prev_coeffs, changed,
                 types, time_dim, raised, computed, cache, held>>

\* _yeo_johnson_transform(lambdas), the caller keeping what it returns
Evaluate ==
  /\ closure # Unset
  /\ Len(held) < MaxResults
  /\ \E l \in LambdaObjects :
       \E out \in {inner_call(heap, closure, l)} :
         /\ heap' = out.heap
         /\ held' = Append(held, result_of(out.id, "_inner", <<l>>, out.heap))
  /\ op' = "_inner"
  /\ UNCHANGED <<data, lambdas, empty, transformed, inverted, coeffs, local_yearly_T,
                 monthly_residuals, yearly_pred, lambda_coeffs, prev_coeffs, changed,
                 types, time_dim, raised, computed, cache, closure>>

\* _yeo_johnson_transform_np(data, lambdas)
TransformNp ==
  /\ Len(held) < MaxResults
  /\ \E l \in LambdaObjects, junk \in Garbage :
       \E made \in {kernel_of_call(heap, closure, data_id, junk)} :
         \E out \in {inner_call(made.heap, made.closure, l)} :
           /\ heap' = out.heap
           /\ held' = Append(held, result_of(out.id, "_yeo_johnson_transform_np",
                                             <<data_id, l>>, out.heap))
  /\ op' = "_yeo_johnson_transform_np"
  /\ UNCHANGED <<data, lambdas, empty, transformed, inverted, coeffs, local_yearly_T,
                 monthly_residuals, yearly_pred, lambda_coeffs, prev_coeffs, changed,
                 types, time_dim, raised, computed, cache, closure>>

\* _yeo_johnson_inverse_transform_np(data, lambdas)
InverseNp ==
  /\ Len(held) < MaxResults
  /\ \E d \in DataObjects, l \in LambdaObjects, junk \in Garbage :
       \E out \in {inverse_call(heap, d, l, junk)} :
         /\ heap' = out.heap
         /\ held' = Append(held, result_of(out.id, "_yeo_johnson_inverse_transform_np",
                                           <<d, l>>, out.heap))
  /\ op' = "_yeo_johnson_inverse_transform_np"
  /\ UNCHANGED <<data, lambdas, empty, transformed, inverted, coeffs, local_yearly_T,
                 monthly_residuals, yearly_pred, lambda_coeffs, prev_coeffs, changed,
                 types, time_dim, raised, computed, cache, closure>>

\* lambda_function(coeffs, local_yearly_T)
LambdaFunction ==
  /\ Len(held) < MaxResults
  /\ \E c \in CoeffObjects :
       \E out \in {returns_new(heap, lambda_function_arr(heap[c], heap[yearly_id]))} :
         /\ heap' = out.heap
         /\ held' = Append(held, result_of(out.id, "lambda_function",
                                           <<c, yearly_id>>, out.heap))
  /\ op' = "lambda_function"
  /\ UNCHANGED <<data, lambdas, empty, transformed, inverted, coeffs, local_yearly_T,
                 monthly_residuals, yearly_pred, lambda_coeffs, prev_coeffs, changed,
                 types, time_dim, raised, computed, cache, closure>>

\* _yeo_johnson_optimize_lambda_np(monthly_residuals, yearly_pred): its masked
\* copies and its closure are its own, res.x is a new array
Optimize ==
  /\ Len(held) < MaxResults
  /\ \E junk \in Garbage :
       \E out \in {returns_new(heap,
                     _yeo_johnson_optimize_lambda_np(heap[data_id], heap[yearly_id],
                                                     [i \in 1..Len(heap[data_id]) |-> junk]))} :
         /\ heap' = out.heap
         /\ held' = Append(held, result_of(out.id, "_yeo_johnson_optimize_lambda_np",
                                           <<data_id, yearly_id>>, out.heap))
  /\ op' = "_yeo_johnson_optimize_lambda_np"
  /\ UNCHANGED <<data, lambdas, empty, transformed, inverted, coeffs, local_yearly_T,
                 monthly_residuals, yearly_pred, lambda_coeffs, prev_coeffs, changed,
                 types, time_dim, raised, computed, cache, closure>>

NextBuffers ==
  MakeOptimized \/ Evaluate \/ TransformNp \/ InverseNp \/ LambdaFunction \/ Optimize

SpecBuffers == InitBuffers /\ [][NextBuffers]_vars

Init == InitKernel \/ InitLambda \/ InitFitter \/ InitTransform \/ InitFit \/ InitArgs
          \/ InitRuns \/ InitCache \/ InitBuffers

Next == NextKernel \/ NextLambda \/ NextFitter \/ NextTransform \/ NextFit
          \/ NextArgs \/ NextRuns \/ NextCache \/ NextBuffers

Spec == Init /\ [][Next]_vars

(***************************************************************************)
(* Floating-point tolerance: a relative tolerance of the square root of    *)
(* the machine epsilon (about 1e-8 for float64) plus an absolute one of    *)
(* the smallest normal number.                                             *)
(***************************************************************************)
RelTolBits == (MantBits - 1) \div 2

Close(a, b) ==
  IF IsFinite(a) /\ IsFinite(b)
  THEN AbsInt(a - b) * Pow2(RelTolBits) <= MinNormal * Pow2(RelTolBits) + AbsInt(b)
  ELSE a = b

\* lambda strictly between 0 and 2
ValidLambda(l) == flt(0, l) /\ flt(l, Two)

\* the effective exponent of an element: lambda for data >= 0, 2 - lambda below
EffLambda(x, l) == IF fge(x, 0) THEN l ELSE fsub(Two, l)

(***************************************************************************)
(* The four-branch Yeo-Johnson definition, evaluated in fixed point at     *)
(* KBits fractional bits and rounded to the format once.  A power b^e is   *)
(* exp(e * ln b); quantities near 0 are carried as a mantissa and a shift  *)
(* so that the result keeps its relative accuracy at every magnitude.      *)
(***************************************************************************)
\* num * 2^sh rounded to an integer (num >= 0)
RShift(num, sh) ==
  IF sh >= 0 THEN num * Pow2(sh)
  ELSE IF 0 - sh >= 31 THEN 0
  ELSE RDiv(num, Pow2(0 - sh))

\* num reduced to at most bits bits, with the shift that was taken out
Narrow(num, bits) ==
  LET d == MaxInt(BitLen(num) - bits, 0) IN <<RShift(num, 0 - d), d>>

\* ln(1 + u) for u > 0 units, as <<num, sh>>: the value num * 2^sh units
RefLog(u) ==
  IF 2 * u < One
  THEN <<MantOf(u) * Log1pRel(ToK(u)), ExOf(u) - KBits>>
  ELSE <<LnK(One + u), FracBits - KBits>>

\* e * ln(1 + u) in fixed point, u > 0 and e # 0 units
RefExponent(u, e) ==
  LET ln == RefLog(u)
      lnK == RShift(ln[1], ln[2] + KBits - FracBits)
  IN  SgnInt(e) * RShift(MantOf(AbsInt(e)) * lnK, ExOf(AbsInt(e)) - FracBits)

\* (b^e - 1) / e for b = 1 + u, u > 0 units and e # 0 units, rounded to the format
RefPower(u, e) ==
  LET ln == RefLog(u)
      rK == RefExponent(u, e)
  IN  IF 2 * AbsInt(rK) < K
      THEN \* ln b * (e^r - 1) / r
           LET nl == Narrow(ln[1], KBits)
           IN  RoundME(nl[1] * Expm1Sum(rK, K, 1), ln[2] + nl[2] - KBits)
      ELSE IF rK > LnTwoK(TopExp + 4) THEN PInf
      ELSE LET pw == IF ExpTwo(rK) >= 0 THEN ExpMant(rK) * Pow2(ExpTwo(rK))
                     ELSE RShift(ExpMant(rK), ExpTwo(rK))
               numK == AbsInt(pw - K)
               s == 30 - BitLen(numK)
               q == (numK * Pow2(s)) \div MantOf(AbsInt(e))
           IN  RoundME(q, 2 * FracBits - KBits - ExOf(AbsInt(e)) - s)

\* ln(1 + u) rounded to the format
RefLn(u) == IF u = 0 THEN 0 ELSE RoundME(RefLog(u)[1], RefLog(u)[2])

\* the definition, for finite x and finite lambda
RefYJ(x, lambda_) ==
  IF x >= 0 /\ lambda_ = 0 THEN RefLn(x)
  ELSE IF x >= 0 THEN (IF x = 0 THEN 0 ELSE RefPower(x, lambda_))
  ELSE IF lambda_ # Two THEN 0 - RefPower(0 - x, Two - lambda_)
  ELSE 0 - RefLn(0 - x)

(***************************************************************************)
(* Claims about the kernels.                                               *)
(***************************************************************************)
\* |x| + 1 below the square root of the overflow threshold 2^TopExp, so that
\* (|x| + 1)^e cannot overflow for an exponent e up to 2
BelowRootOfMax(x) == AbsInt(x) + One < Pow2(TopExp \div 2) * One

RoundTrips(x, l, y, z) ==
  (IsFinite(x) /\ ValidLambda(l)) =>
     /\ ~IsNaN(y) /\ ~IsNaN(z)
     /\ (IsFinite(y) /\ IsFinite(z)) => Close(z, x)
     /\ BelowRootOfMax(x) => (IsFinite(y) /\ IsFinite(z))

\* the lambda of the sample at time t (from 1) of gridcell g: the coefficients of
\* month (t - 1) mod 12 and the covariate of year (t - 1) div 12, at gridcell g
lambda_at(t, g) ==
  lambda_function(lambda_coeffs[((t - 1) % MonthsPerYear) + 1][g],
                  yearly_pred[((t - 1) \div MonthsPerYear) + 1][g])

\* C1 (as stated): for every finite data value and every lambda strictly between
\* 0 and 2, the inverse kernel applied to the forward kernel's output returns the
\* data value within floating-point tolerance; and so does
\* inverse_yeo_johnson_transform applied to yeo_johnson_transform's output with
\* the same coefficients and covariate.
C1_RoundTripAlways ==
  /\ op = "roundtrip" =>
       \A i \in 1..Len(data) :
         (IsFinite(data[i]) /\ ValidLambda(lambdas[i])) => Close(inverted[i], data[i])
  /\ op = "inverse_yeo_johnson_transform" =>
       \A t \in 1..Len(monthly_residuals), g \in 1..NGridcells :
         (IsFinite(monthly_residuals[t][g]) /\ ValidLambda(lambda_at(t, g)))
           => Close(inverted[t][g], monthly_residuals[t][g])

\* C1 (amended): for finite data and lambda strictly between 0 and 2 the round
\* trip never yields NaN; it returns the data value within tolerance unless the
\* forward or the inverse result overflowed to an infinity; and no overflow
\* happens while |data| + 1 is below the square root of the overflow threshold.
\* This holds of the two kernels and of yeo_johnson_transform followed by
\* inverse_yeo_johnson_transform with the same coefficients and covariate.
C1_RoundTrip ==
  /\ op = "roundtrip" =>
       \A i \in 1..Len(data) :
         RoundTrips(data[i], lambdas[i], transformed[i], inverted[i])
  /\ op = "inverse_yeo_johnson_transform" =>
       \A t \in 1..Len(monthly_residuals), g \in 1..NGridcells :
         RoundTrips(monthly_residuals[t][g], lambda_at(t, g),
                    transformed[t][g], inverted[t][g])

\* a round trip of a negative value through the general branch has been made by
\* the kernels
C1_Witness ==
  /\ op = "roundtrip"
  /\ \E i \in 1..Len(data) :
       /\ data[i] = 0 - FromRatio(3, 2) /\ lambdas[i] = FromRatio(1, 2)
       /\ inverted[i] # empty[i]
       /\ Close(inverted[i], data[i])

\* and by the two transformations
C1_TransformWitness ==
  /\ op = "inverse_yeo_johnson_transform"
  /\ \E t \in 1..Len(monthly_residuals), g \in 1..NGridcells :
       /\ monthly_residuals[t][g] < 0 /\ IsFinite(monthly_residuals[t][g])
       /\ ValidLambda(lambda_at(t, g)) /\ lambda_at(t, g) # One
       /\ transformed[t][g] # monthly_residuals[t][g]
       /\ inverted[t][g] # empty[t]
       /\ Close(inverted[t][g], monthly_residuals[t][g])

inverse_input == IF op = "roundtrip" THEN transformed ELSE data

n_masks_true(i) ==
  Cardinality({k \in 1..4 :
     <<sel_a(inverse_input, lambdas), sel_b(inverse_input, lambdas),
       sel_c(inverse_input, lambdas), sel_d(inverse_input, lambdas)>>[k][i]})

\* C6: in the inverse kernel exactly one of the four masks is true for every
\* element, whatever its data value and its lambda, so that no output element
\* is left unwritten or written twice.
C6_MasksPartition ==
  op \in {"inverse", "roundtrip"} =>
    \A i \in 1..Len(inverse_input) : n_masks_true(i) = 1

\* what does hold: no element is selected by two masks
C6_NeverTwice ==
  op \in {"inverse", "roundtrip"} =>
    \A i \in 1..Len(inverse_input) : n_masks_true(i) <= 1

\* the power (|x| + 1)^e of the definition is at the overflow threshold of the
\* format (within the tolerance) or beyond it
PowerOverflows(x, l) ==
  /\ x # 0 /\ EffLambda(x, l) # 0
  /\ RefExponent(AbsInt(x), EffLambda(x, l)) >= LnTwoK(TopExp) - K \div Pow2(RelTolBits)

WellScaled(xi, t) ==
  /\ 4 * eps <= xi[1] /\ xi[1] <= Pow2(TopExp - 2) * One
  /\ \/ xi[2] = 0
     \/ AbsInt(t) \div Pow2(2 * FracBits - 30) < Pow2(30) \div AbsInt(xi[2])

FiniteCovariates == {t \in CovariateValues : IsFinite(t)}

\* C4 (as stated): the fitted xi0 is strictly positive, xi1 is within
\* [-0.1, 0.1], and every lambda computed from the fitted coefficients is
\* strictly inside (0, 2).
C4_StrictlyPositive ==
  op = "fit" =>
    /\ flt(0, lambda_coeffs[1])
    /\ fle(bounds[2][1], lambda_coeffs[2]) /\ fle(lambda_coeffs[2], bounds[2][2])
    /\ \A t \in FiniteCovariates :
         /\ flt(0, lambda_function(lambda_coeffs, t))
         /\ flt(lambda_function(lambda_coeffs, t), Two)

\* C4 (amended): the fitted xi0 is finite and not negative (0 is produced, the
\* bound being closed), xi1 is within [-0.1, 0.1], and the lambda computed from
\* the fitted coefficients is in the closed interval [0, 2] for every finite
\* covariate at which exp(xi1 * T) does not overflow.
C4_WithinBounds ==
  op = "fit" =>
    /\ IsFinite(lambda_coeffs[1]) /\ lambda_coeffs[1] >= 0
    /\ fle(0 - FromRatio(1, 10), lambda_coeffs[2])
    /\ fle(lambda_coeffs[2], FromRatio(1, 10))
    /\ \A t \in FiniteCovariates :
         IsFinite(np_exp(fmul(t, lambda_coeffs[2]))) =>
            /\ fle(0, lambda_function(lambda_coeffs, t))
            /\ fle(lambda_function(lambda_coeffs, t), Two)

\* a fit has moved both coefficients away from the first guess, xi1 onto its bound
C4_Witness ==
  /\ op = "fit"
  /\ lambda_coeffs[1] # first_guess[1]
  /\ lambda_coeffs[2] \in {0 - FromRatio(1, 10), FromRatio(1, 10)}

\* the positions at which neither the residual nor the covariate is NaN
KeptPositions(r, y) == {i \in 1..Len(r) : r[i] # NaN /\ y[i] # NaN}

\* the series a with the positions outside keep deleted
RECURSIVE Deleted(_, _)
Deleted(a, keep) ==
  IF Len(a) = 0 THEN <<>>
  ELSE LET front == Deleted(SubSeq(a, 1, Len(a) - 1), keep)
       IN  IF Len(a) \in keep THEN Append(front, a[Len(a)]) ELSE front

\* C10: the coefficients fitted on residual/covariate series containing NaN are
\* the coefficients fitted on the series with every position deleted at which
\* the residual or the covariate is NaN.
C10_NaNPairsRemoved ==
  op = "fit" =>
    lambda_coeffs =
      _yeo_johnson_optimize_lambda_np(
        Deleted(monthly_residuals, KeptPositions(monthly_residuals, yearly_pred)),
        Deleted(yearly_pred, KeptPositions(monthly_residuals, yearly_pred)),
        empty_like(monthly_residuals))

\* a fit on series with a NaN residual and, elsewhere, a NaN covariate has
\* returned coefficients other than the first guess
C10_Witness ==
  /\ op = "fit"
  /\ \E i, j \in 1..Len(monthly_residuals) :
       /\ i # j
       /\ monthly_residuals[i] = NaN /\ yearly_pred[i] # NaN
       /\ yearly_pred[j] = NaN /\ monthly_residuals[j] # NaN
  /\ lambda_coeffs # first_guess

(***************************************************************************)
(* Claims about the fit and the two transformations.                       *)
(***************************************************************************)
\* the samples of month m (0..11) at gridcell g: time indices m, m + 12, ...
month_samples(m, g) ==
  [k \in 1..(Len(monthly_residuals) \div MonthsPerYear) |->
     monthly_residuals[m + MonthsPerYear * (k - 1) + 1][g]]

\* the covariate of gridcell g, year by year
year_covariates(g) == [k \in 1..Len(yearly_pred) |-> yearly_pred[k][g]]

\* C7: fit_yeo_johnson_transform returns 12 entries along the month axis, in the
\* order 0..11; entry (m, g) is the fitter's result on the residuals of gridcell
\* g at the time indices m, m + 12, m + 24, ..., the k-th of them paired with the
\* covariate of the k-th year at gridcell g.
C7_MonthSlices ==
  op = "fit_yeo_johnson_transform" =>
    /\ Len(lambda_coeffs) = MonthsPerYear
    /\ \A m \in 0..(MonthsPerYear - 1), g \in 1..NGridcells :
         \A r \in {month_samples(m, g)}, y \in {year_covariates(g)} :
           lambda_coeffs[m + 1][g] =
             _yeo_johnson_optimize_lambda_np(r, y, empty_like(r))

\* a fit has returned coefficients for two months of one gridcell that differ
\* from each other and from the first guess
C7_Witness ==
  /\ op = "fit_yeo_johnson_transform"
  /\ \E m1, m2 \in 1..MonthsPerYear, g \in 1..NGridcells :
       /\ lambda_coeffs[m1][g] # lambda_coeffs[m2][g]
       /\ lambda_coeffs[m1][g] # first_guess
       /\ lambda_coeffs[m2][g] # first_guess

\* C8: yeo_johnson_transform and inverse_yeo_johnson_transform transform the
\* sample at time index t of gridcell g with the lambda computed from the
\* coefficients of month t mod 12 and the covariate of year t div 12 at gridcell
\* g, the pair the fit used for that sample; the lambdas they return are the
\* lambdas of these pairs.
C8_LambdaOfYearMonth ==
  /\ op \in {"yeo_johnson_transform", "inverse_yeo_johnson_transform"} =>
       /\ \A t \in 1..Len(monthly_residuals), g \in 1..NGridcells :
            /\ transformed[t][g] =
                 _yeo_johnson_transform_np(<<monthly_residuals[t][g]>>,
                                           <<lambda_at(t, g)>>, <<NaN>>)[1]
            /\ lambdas[((t - 1) % MonthsPerYear) + 1][g][((t - 1) \div MonthsPerYear) + 1]
                 = lambda_at(t, g)
  /\ op = "inverse_yeo_johnson_transform" =>
       \A t \in 1..Len(monthly_residuals), g \in 1..NGridcells :
         inverted[t][g] =
           _yeo_johnson_inverse_transform_np(<<transformed[t][g]>>,
                                             <<lambda_at(t, g)>>, <<empty[t]>>)[1]

\* both transformations have run with lambdas that differ between the months,
\* the years and the gridcells
C8_Witness ==
  /\ op = "inverse_yeo_johnson_transform"
  /\ lambda_at(1, 1) # lambda_at(2, 1)
  /\ lambda_at(1, 1) # lambda_at(1 + MonthsPerYear, 1)
  /\ lambda_at(1, 1) # lambda_at(1, 2)
  /\ \E t \in (MonthsPerYear + 1)..Len(monthly_residuals) :
       /\ transformed[t][2] # monthly_residuals[t][2]
       /\ IsFinite(inverted[t][2])

\* the unit (month m from 1, gridcell g) reads the changed cell
reads_changed(m, g) ==
  /\ changed[3] = g
  /\ changed[1] = "monthly_residuals" => ((changed[2] - 1) % MonthsPerYear) + 1 = m

\* C9: after one residual or one covariate value has been changed and the fit
\* repeated, the coefficients of every (month, gridcell) unit that does not read
\* the changed cell (another month or another gridcell for a residual, another
\* gridcell for a covariate) are the coefficients of the first fit.
C9_UnitsIndependent ==
  (op = "fit_yeo_johnson_transform" /\ changed # Unset) =>
    \A m \in 1..MonthsPerYear, g \in 1..NGridcells :
      ~reads_changed(m, g) => lambda_coeffs[m][g] = prev_coeffs[m][g]

\* a change has moved the coefficients of a unit that reads the changed cell,
\* while a second unit kept coefficients other than the first guess
C9_Witness ==
  /\ op = "fit_yeo_johnson_transform" /\ changed # Unset
  /\ \E m \in 1..MonthsPerYear, g \in 1..NGridcells :
       reads_changed(m, g) /\ lambda_coeffs[m][g] # prev_coeffs[m][g]
  /\ \E m \in 1..MonthsPerYear, g \in 1..NGridcells :
       ~reads_changed(m, g) /\ lambda_coeffs[m][g] # first_guess

(***************************************************************************)
(* Claims about failed fits.                                               *)
(***************************************************************************)
\* the variance of the residuals transformed with the lambdas of coefficients c,
\* over the positions at which neither the residual nor the covariate is NaN
kept_variance(r, y, c) ==
  LET resids == Deleted(r, KeptPositions(r, y))
      pred == Deleted(y, KeptPositions(r, y))
  IN  np_var(_inner(resids, data_log1p_of(resids), empty_like(resids),
                    lambda_function_arr(c, pred)))

\* fewer than 2 pairs remain, or the variance of the transformed residuals is 0
ill_posed(r, y, c) ==
  \/ Cardinality(KeptPositions(r, y)) < 2
  \/ kept_variance(r, y, c) = 0

\* C11: for a unit whose fit is ill-posed (fewer than 2 non-NaN pairs, or
\* transformed residuals of variance 0) the fitter does not return finite
\* coefficients (it has no error outcome, so it would have to return NaN).
C11_FailedFitIsNaN ==
  (op = "fit" /\ ill_posed(monthly_residuals, yearly_pred, lambda_coeffs)) =>
     ~(IsFinite(lambda_coeffs[1]) /\ IsFinite(lambda_coeffs[2]))

\* what the fitter does instead: with fewer than 2 pairs every value of the
\* objective is NaN or -inf, no point is ever better than another, and the
\* first guess is returned as if it had been fitted
C11_FirstGuessReturned ==
  (op = "fit" /\ Cardinality(KeptPositions(monthly_residuals, yearly_pred)) < 2) =>
     lambda_coeffs = first_guess

(***************************************************************************)
(* Arguments whose lengths do not fit: the residuals do not cover whole    *)
(* years, or the covariate has another number of years than they have.     *)
(***************************************************************************)
shape_mismatch ==
  \/ Len(monthly_residuals) % MonthsPerYear # 0
  \/ Len(yearly_pred) # Len(monthly_residuals) \div MonthsPerYear

called_with_residuals ==
  op \in {"fit_yeo_johnson_transform", "yeo_johnson_transform",
          "inverse_yeo_johnson_transform"}

\* C12: a call of fit_yeo_johnson_transform, yeo_johnson_transform or
\* inverse_yeo_johnson_transform with residuals whose length is no multiple of
\* 12, or with a covariate of another number of years, raises an error before
\* any gridcell's fit or transformation has been computed
C12_RejectedBeforeComputation ==
  (called_with_residuals /\ shape_mismatch) =>
     (raised # NoError /\ computed.units = 0)

\* what does hold of such a call: it raises, and returns no result
C12_MismatchRaises ==
  (called_with_residuals /\ shape_mismatch) =>
     /\ raised # NoError
     /\ op = "fit_yeo_johnson_transform" => lambda_coeffs = Unset
     /\ op = "yeo_johnson_transform" => transformed = Unset
     /\ op = "inverse_yeo_johnson_transform" => inverted = Unset

\* a fit that raised after it had fitted a month
C12_FittedBeforeRaising ==
  /\ op = "fit_yeo_johnson_transform"
  /\ shape_mismatch
  /\ raised = IndexError
  /\ computed.units = NGridcells

(***************************************************************************)
(* Arguments of a type the function called last does not accept.           *)
(***************************************************************************)
called_function ==
  op \in {"fit_yeo_johnson_transform", "yeo_johnson_transform",
          "inverse_yeo_johnson_transform", "get_lambdas_from_covariates"}

wrong_type ==
  \/ /\ op # "get_lambdas_from_covariates"
     /\ types.monthly_residuals # "DataArray"
  \/ types.yearly_pred # "DataArray"
  \/ /\ op # "fit_yeo_johnson_transform"
     /\ types.coeffs # "Dataset"

\* C13: a call of fit_yeo_johnson_transform, yeo_johnson_transform,
\* inverse_yeo_johnson_transform or get_lambdas_from_covariates with residuals
\* or a covariate that is no DataArray, or with coefficients that are no
\* Dataset, raises TypeError; no lambda, fit or transformation has been computed
\* then, no result is returned and every argument is as it was
C13_TypeErrorFirst ==
  [][(called_function' /\ wrong_type') =>
       /\ raised'.type = "TypeError"
       /\ computed' = Computed(0, 0)
       /\ UNCHANGED <<monthly_residuals, yearly_pred, lambda_coeffs, types, time_dim,
                      lambdas, transformed, inverted>>]_vars

\* an inverse transformation refused for its coefficients alone
C13_Witness ==
  /\ op = "inverse_yeo_johnson_transform"
  /\ types.monthly_residuals = "DataArray"
  /\ types.yearly_pred = "DataArray"
  /\ types.coeffs = "ndarray"
  /\ raised.type = "TypeError"
  /\ computed = Computed(0, 0)
  /\ inverted = Unset

\* the types of the arguments that fail the check of the function called last
failing_types ==
  {types[a] : a \in {b \in {"monthly_residuals", "yearly_pred", "coeffs"} :
     \/ b = "monthly_residuals" /\ op # "get_lambdas_from_covariates"
                                /\ types.monthly_residuals # "DataArray"
     \/ b = "yearly_pred" /\ types.yearly_pred # "DataArray"
     \/ b = "coeffs" /\ op # "fit_yeo_johnson_transform"
                     /\ types.coeffs # "Dataset"}}

\* C20: the message of a TypeError raised by fit_yeo_johnson_transform,
\* yeo_johnson_transform, inverse_yeo_johnson_transform or
\* get_lambdas_from_covariates reports the type of an argument that failed its
\* check: the type of coeffs when coeffs is no Dataset
C20_ReportsOffendingType ==
  (called_function /\ raised.type = "TypeError") => raised.got \in failing_types

\* what does hold: the two functions that take no coefficients, or check them
\* first, report a type that failed
C20_FitAndLambdasReport ==
  (op \in {"fit_yeo_johnson_transform", "get_lambdas_from_covariates"}
     /\ raised.type = "TypeError") => raised.got \in failing_types

\* the coefficients of a fit are passed on, with the arguments of the fit
fitted_then_called ==
  /\ op = "fit_yeo_johnson_transform" /\ raised = NoError
  /\ op' \in {"yeo_johnson_transform", "inverse_yeo_johnson_transform"}

\* C19: whatever the name of the time axis fit_yeo_johnson_transform was called
\* with as time_dim, yeo_johnson_transform and inverse_yeo_johnson_transform
\* called with the coefficients it returned, the same residuals and the same
\* covariate return a result
C19_SameAxisAccepted ==
  [][fitted_then_called => raised' = NoError]_vars

\* what does hold: they return a result if the axis is named "time"
C19_TimeAxisAccepted ==
  [][(fitted_then_called /\ time_dim = "time") =>
       (raised' = NoError /\ computed'.units = NGridcells)]_vars

\* a fit on another axis was made and its coefficients were refused
C19_RefusedAfterFit ==
  /\ op = "yeo_johnson_transform"
  /\ time_dim # "time"
  /\ types = ValidTypes
  /\ ~shape_mismatch
  /\ lambda_coeffs = fit_yeo_johnson_transform(monthly_residuals, yearly_pred)
  /\ raised = ValueError

\* C15 as stated: with a lambda of exactly 1.0 the forward kernel returns its
\* data, whatever the data
C15_IdentityExactly ==
  op = "transform" =>
    \A i \in 1..Len(data) : lambdas[i] = One => transformed[i] = data[i]

\* C15: with a lambda of exactly 1.0 the forward kernel returns its data within
\* floating-point tolerance, computing expm1(log1p(|x|) * 1) / 1 with the sign of
\* x: zero and the infinities are returned exactly, NaN gives NaN, and a finite
\* value comes back with its sign and close to itself (or, in the upper half of
\* the largest binade, as the infinity of its sign)
C15_Identity ==
  op = "transform" =>
    \A i \in 1..Len(data) :
      lambdas[i] = One =>
        /\ IsNaN(data[i]) <=> IsNaN(transformed[i])
        /\ IsInf(data[i]) => transformed[i] = data[i]
        /\ data[i] = 0 => transformed[i] = 0
        /\ IsFinite(data[i]) =>
             /\ np_sign(transformed[i]) = np_sign(data[i])
             /\ \/ Close(transformed[i], data[i]) /\ IsFinite(transformed[i])
                \/ /\ IsInf(transformed[i])
                   /\ AbsInt(data[i]) > MaxFinite \div 2

\* a negative value was transformed with lambda 1.0 and came back rounded
C15_Witness ==
  /\ op = "transform"
  /\ \E i \in 1..Len(data) :
       /\ lambdas[i] = One
       /\ flt(data[i], 0) /\ IsFinite(data[i])
       /\ transformed[i] # data[i]
       /\ Close(transformed[i], data[i])

(***************************************************************************)
(* The branches the two kernels took for an element: the forward kernel on *)
(* data, the inverse kernel on the result, with the same lambdas.          *)
(***************************************************************************)
forward_singular(i) == lmbds_eq_0_or_2(data, lambdas)[i]
inverse_singular(i) ==
  sel_a(transformed, lambdas)[i] \/ sel_d(transformed, lambdas)[i]
same_sign_seen(i) ==
  /\ ~IsNaN(data[i]) /\ ~IsNaN(transformed[i])
  /\ fge(data[i], 0) <=> fge(transformed[i], 0)

\* C18: for every lambda and either sign of the data the inverse kernel takes
\* its singular branch (expm1) exactly when the forward kernel took its singular
\* branch (log1p), also for a lambda at a distance of exactly eps from 0 or 2
C18_SameBranch ==
  op = "roundtrip" =>
    \A i \in 1..Len(data) :
      same_sign_seen(i) => (forward_singular(i) <=> inverse_singular(i))

\* what does hold: the two kernels agree for negative data, and for data >= 0
\* unless |lambda| is exactly eps
C18_SameBranchOffEps ==
  op = "roundtrip" =>
    \A i \in 1..Len(data) :
      (same_sign_seen(i) /\ (flt(data[i], 0) \/ np_abs(lambdas[i]) # eps)) =>
         (forward_singular(i) <=> inverse_singular(i))

\* data >= 0 went through log1p, and its result through the general branch
C18_DisagreeAtEps ==
  /\ op = "roundtrip"
  /\ \E i \in 1..Len(data) :
       /\ lambdas[i] = eps /\ fgt(data[i], 0)
       /\ forward_singular(i) /\ sel_b(transformed, lambdas)[i]

\* C16: two runs of the fitter on the same residuals and the same covariate
\* return identical coefficients, whatever the memory of each run's buffer held
\* before: no run reads what was left there, and each starts from the first
\* guess (1.0, 0.0) within the same bounds
C16_SameCoefficients ==
  op = "run_again" => lambda_coeffs = prev_coeffs

\* two runs have returned coefficients away from the first guess
C16_Witness ==
  /\ op = "run_again"
  /\ lambda_coeffs = prev_coeffs
  /\ lambda_coeffs[1] # first_guess[1]
  /\ lambda_coeffs[2] # first_guess[2]



\* what a call with the arguments of h returns when nothing was loaded before
first_loaded(h) == _load_aod_obs(held[h].version, held[h].resample)

\* C21: the object cached for (version, resample) is never handed to a caller:
\* every call returns a new object, so whatever callers wrote into the arrays
\* returned to them, the cached object and what each call returned are the data
\* as first loaded
C21_CacheIsolated ==
  /\ \A key \in DOMAIN cache : heap[cache[key]] = _load_aod_obs(key[1], key[2])
  /\ \A h \in 1..Len(held) :
       /\ held[h].was = first_loaded(h)
       /\ \A key \in DOMAIN cache : held[h].id # cache[key]
       /\ \A g \in 1..Len(held) : g # h => held[g].id # held[h].id
  /\ op = "load" /\ raised = NoError =>
       heap[held[Len(held)].id] = first_loaded(Len(held))

\* a call has returned after a caller wrote into the array an earlier call with
\* the same arguments had returned
C21_Witness ==
  /\ op = "load"
  /\ raised = NoError
  /\ \E h \in 1..(Len(held) - 1) :
       /\ held[h].version = held[Len(held)].version
       /\ held[h].resample = held[Len(held)].resample
       /\ heap[held[h].id] # held[h].was

\* the results of the function by that callers hold
results_by(by) == {h \in 1..Len(held) : held[h].by = by}

\* C14: whatever calls of the forward kernel, of the per-fit kernel, of the
\* inverse kernel, of lambda_function and of the fitter were made, the residual
\* array, the lambda array, the coefficients and the covariate passed in hold
\* the values they were passed with, and fitted coefficients hold the values
\* the fit returned
C14_InputsUnchanged ==
  /\ heap[data_id] = data
  /\ heap[lambdas_id] = lambdas
  /\ heap[coeffs_id] = coeffs
  /\ heap[yearly_id] = local_yearly_T
  /\ \A h \in results_by("_yeo_johnson_optimize_lambda_np") :
       heap[held[h].id] = held[h].was

\* the per-fit kernel has written a result other than its input, and
\* lambda_function has been evaluated on coefficients a fit returned
C14_Witness ==
  /\ \E k \in results_by("_inner") : held[k].was # data
  /\ \E h \in results_by("_yeo_johnson_optimize_lambda_np") :
       \E g \in results_by("lambda_function") : held[g].args[1] = held[h].id

\* the result h is an object of its own that holds the value it was returned with
kept_apart(h) ==
  /\ heap[held[h].id] = held[h].was
  /\ \A g \in 1..Len(held) : g # h => held[g].id # held[h].id

\* C17 as stated: every result callers hold, the per-fit kernel's included, is
\* an object of its own and holds the value it was returned with
C17_ResultsKept ==
  \A h \in 1..Len(held) : kept_apart(h)

\* the evaluation of the per-fit kernel made last
last_evaluation == CHOOSE h \in results_by("_inner") :
                     \A g \in results_by("_inner") : g <= h

\* C17: a result of _yeo_johnson_transform_np, of the inverse kernel, of
\* lambda_function or of the fitter is an object of its own, apart from the
\* arguments and from the buffer of a per-fit kernel, and keeps the value it was
\* returned with; every evaluation of one per-fit kernel returns the kernel's
\* one buffer, which holds the result of the evaluation made last, and that
\* result is what _inner computes whatever the buffer held before
C17_FreshOutsideFit ==
  /\ \A h \in 1..Len(held) :
       held[h].by # "_inner" =>
         /\ kept_apart(h)
         /\ held[h].id \notin {data_id, lambdas_id, coeffs_id, yearly_id}
         /\ closure # Unset => held[h].id # closure.transf
  /\ \A h \in results_by("_inner") :
       /\ held[h].id = closure.transf
       /\ held[h].was = _inner(data, data_log1p_of(data), empty_like(data),
                               heap[held[h].args[1]])
  /\ results_by("_inner") # {} => heap[closure.transf] = held[last_evaluation].was

\* the per-fit kernel has been evaluated on lambdas that lambda_function
\* returned, and the result of an earlier evaluation no longer holds the value
\* it was returned with
C17_Witness ==
  \E g, h \in results_by("_inner") :
    /\ g < h
    /\ heap[held[g].id] # held[g].was
    /\ held[h].args[1] \in held_by({"lambda_function"})
====
